---------------------------- MODULE Spec2Model ----------------------------
(***************************************************************************)
(* A model of the adaptive rule-selection core of real-time-security:      *)
(*   services/fast_signals.py   FastSignalEngine                           *)
(*   services/rule_metadata.py  RuleRegistry and the built-in rules        *)
(*   services/rule_router.py    RuleRouter                                 *)
(*                                                                         *)
(* Numbers.  The code computes risks in Python floats.  The model computes *)
(* them as exact fractions [n, d] kept in lowest terms, so 0.1 is 1/10.    *)
(* IEEE rounding (last-place differences) is outside the model; every      *)
(* comparison the model makes is the comparison the code makes, on the     *)
(* exact value of the same expression.                                     *)
(*                                                                         *)
(* Datasets.  A pandas DataFrame is modelled by what the code reads of it: *)
(* its row count, its columns with their dtypes, and for the amount,       *)
(* timestamp and user_id columns a run-length summary of the values.       *)
(***************************************************************************)
EXTENDS Integers, Sequences, FiniteSets, TLC

(***************************************************************************)
(* Bounds of the model.                                                    *)
(***************************************************************************)
\* registry entries: the six built-in rules and one more name
MaxRules == 7
\* entries of a replaced signal table
MaxStubs == 2
\* signals handed to get_aggregate_risk_score directly
MaxSignals == 3

(***************************************************************************)
(* Exact fractions.                                                        *)
(***************************************************************************)
Abs(x) == IF x < 0 THEN -x ELSE x

RECURSIVE GCD(_, _)
GCD(a, b) == IF b = 0 THEN a ELSE GCD(b, a % b)

\* n/d in lowest terms with d > 0
Frac(n, d) ==
    LET g == GCD(Abs(n), Abs(d))
        s == IF d < 0 THEN -1 ELSE 1
    IN  [n |-> s * (n \div g), d |-> s * (d \div g)]

Zero == [n |-> 0, d |-> 1]
One == [n |-> 1, d |-> 1]
Tenths(k) == Frac(k, 10)

FAdd(a, b) == Frac(a.n * b.d + b.n * a.d, a.d * b.d)
FMul(a, b) == Frac(a.n * b.n, a.d * b.d)
\* b is not zero
FDiv(a, b) == Frac(a.n * b.d, a.d * b.n)
FLt(a, b) == a.n * b.d < b.n * a.d
FLe(a, b) == a.n * b.d <= b.n * a.d
FGt(a, b) == FLt(b, a)
FGe(a, b) == FLe(b, a)
\* Python's max(a, b) and min(a, b): the first argument unless the second
\* is strictly greater (smaller)
PyMax(a, b) == IF FGt(b, a) THEN b ELSE a
PyMin(a, b) == IF FLt(b, a) THEN b ELSE a

RECURSIVE SeqSum(_)
SeqSum(s) == IF s = <<>> THEN 0 ELSE Head(s) + SeqSum(Tail(s))

Range(s) == {s[i] : i \in DOMAIN s}


(***************************************************************************)
(* Datasets (pandas DataFrames) as the code reads them.                    *)
(*   rows       len(df)                                                    *)
(*   dtypes     column name -> "number" | "object" | "datetime"            *)
(*   amount     nulls, and the non-null values as runs [v, c]: c cells of  *)
(*              value v/2 (so v even means an integral amount)             *)
(*   timestamp  nulls, bad (a value pd.to_datetime cannot parse), the      *)
(*              parsed values as runs [t, c]: c cells on day t, and fast:  *)
(*              how many consecutive differences are under one minute      *)
(*   user_id    nulls, and the value counts as runs [c, k]: k users with   *)
(*              c rows each                                                *)
(*   other_nulls  null cells of the remaining columns                      *)
(* A summary of a column the dataset does not have is NoCol and is never   *)
(* read.  Datasets come from pd.read_csv (routers/files.py:125) or from a  *)
(* list of row dicts (services/fraud_detection.py:100-115), so a dataset   *)
(* with rows has at least one column.                                      *)
(***************************************************************************)
NoCol == [nulls |-> 0]

Columns(df) == DOMAIN df.dtypes
Has(df, col) == col \in Columns(df)

RECURSIVE RunCount(_)
RunCount(runs) == IF runs = <<>> THEN 0 ELSE Head(runs).c + RunCount(Tail(runs))

\* df[col].dropna() has this many cells
NonNull(df, col) == df.rows - df[col].nulls
\* df[col].isnull().all(): true of a column without cells
AllNull(df, col) == df[col].nulls = df.rows
\* df[col].notna().any()
AnyNotNull(df, col) == df[col].nulls < df.rows

\* df.isnull().sum().sum()
NullCells(df) ==
    (IF Has(df, "amount") THEN df.amount.nulls ELSE 0)
    + (IF Has(df, "timestamp") THEN df.timestamp.nulls ELSE 0)
    + (IF Has(df, "user_id") THEN df.user_id.nulls ELSE 0)
    + df.other_nulls

\* len(df.select_dtypes(include=[np.number]).columns)
NumericColumns(df) == Cardinality({c \in Columns(df) : df.dtypes[c] = "number"})

RECURSIVE RunSum(_)
RunSum(runs) == IF runs = <<>> THEN 0 ELSE Head(runs).v * Head(runs).c + RunSum(Tail(runs))
RECURSIVE RunSumSq(_)
RunSumSq(runs) ==
    IF runs = <<>> THEN 0
    ELSE Head(runs).v * Head(runs).v * Head(runs).c + RunSumSq(Tail(runs))
\* amounts.nunique(): the runs of a summary have distinct values
NUnique(runs) == Cardinality({runs[i].v : i \in DOMAIN runs})
\* (amounts % 1 == 0).sum()
RoundCount(runs) ==
    RunCount(SelectSeq(runs, LAMBDA r : r.v % 2 = 0))
\* cv = amounts.std() / amounts.mean() if amounts.mean() != 0 else 0; cv > 3.
\* With n values of sum S and sum of squares Q the sample variance is
\* (nQ - S^2) / (n(n-1)) and the mean S/n, so for a positive mean
\* cv > 3 iff n(nQ - S^2) > 9(n-1)S^2; a zero mean gives cv = 0 and a
\* negative one a negative cv.
CvAbove3(runs) ==
    LET n == RunCount(runs)
        S == RunSum(runs)
        Q == RunSumSq(runs)
    IN  S > 0 /\ n * (n * Q - S * S) > 9 * (n - 1) * S * S

\* (timestamps > now).sum() and (timestamps < now - 365 days).sum()
FutureCount(runs, now) == RunCount(SelectSeq(runs, LAMBDA r : r.t > now))
OldCount(runs, now) == RunCount(SelectSeq(runs, LAMBDA r : r.t < now - 365))

\* user_counts = df['user_id'].value_counts()
RECURSIVE UserCount(_)
UserCount(runs) == IF runs = <<>> THEN 0 ELSE Head(runs).k + UserCount(Tail(runs))
RECURSIVE MaxUserRows(_)
MaxUserRows(runs) ==
    IF runs = <<>> THEN 0
    ELSE LET m == MaxUserRows(Tail(runs))
         IN  IF Head(runs).c > m THEN Head(runs).c ELSE m

(***************************************************************************)
(* services/fast_signals.py: the signal functions.  A call of a signal     *)
(* function returns a FastSignal, returns None, or raises; the three are   *)
(* the outcomes "signal", "none" and "raise".  Of a FastSignal the model   *)
(* keeps name, risk_score and confidence: value and metadata are           *)
(* diagnostics no code reads.                                              *)
(***************************************************************************)
FastSignal(name, risk_score, confidence) ==
    [kind |-> "signal", name |-> name, risk_score |-> risk_score, confidence |-> confidence]
None == [kind |-> "none", name |-> "", risk_score |-> Zero, confidence |-> Zero]
Raised == [kind |-> "raise", name |-> "", risk_score |-> Zero, confidence |-> Zero]

\* data_quality_signal without the min(..., 1.0) of line 74
data_quality_signal_uncapped(df, meta) ==
    IF df.rows = 0 THEN None
    ELSE LET missing_ratio == Frac(NullCells(df), df.rows * Cardinality(Columns(df)))
         IN  FastSignal("data_quality", FMul(missing_ratio, Frac(2, 1)), Tenths(8))

data_quality_signal(df, meta) ==
    IF df.rows = 0 THEN None
    ELSE LET missing_ratio == Frac(NullCells(df), df.rows * Cardinality(Columns(df)))
             risk_score == PyMin(FMul(missing_ratio, Frac(2, 1)), One)
         IN  FastSignal("data_quality", risk_score, Tenths(8))

\* the signal with a risk of 0.5 for the largest files
file_size_signal_heavy(df, meta) ==
    FastSignal("file_size", IF df.rows > 10000 THEN Tenths(5) ELSE Zero, Tenths(6))

file_size_signal(df, meta) ==
    LET row_count == df.rows
        risk_score == IF row_count > 10000 THEN Tenths(3)
                      ELSE IF row_count > 5000 THEN Tenths(1)
                      ELSE Zero
    IN  FastSignal("file_size", risk_score, Tenths(6))

\* the signal with a gate that asks for more than 5 values
amount_distribution_signal_above5(df, meta) ==
    IF ~Has(df, "amount") \/ AllNull(df, "amount") THEN None
    ELSE IF NonNull(df, "amount") <= 5 THEN None
    ELSE IF df.dtypes["amount"] # "number" THEN Raised
    ELSE LET amounts == df.amount.vals
             r1 == IF NUnique(amounts) = 1 THEN Tenths(4) ELSE Zero
             r2 == IF CvAbove3(amounts) THEN FAdd(r1, Tenths(3)) ELSE r1
             r3 == IF 10 * RoundCount(amounts) > 8 * RunCount(amounts)
                   THEN FAdd(r2, Tenths(2)) ELSE r2
         IN  FastSignal("amount_distribution", PyMin(r3, One), Tenths(7))

amount_distribution_signal(df, meta) ==
    IF ~Has(df, "amount") \/ AllNull(df, "amount") THEN None
    ELSE IF NonNull(df, "amount") < 5 THEN None
    \* amounts.std() of a column of text raises TypeError
    ELSE IF df.dtypes["amount"] # "number" THEN Raised
    ELSE LET amounts == df.amount.vals
             r1 == IF NUnique(amounts) = 1 THEN Tenths(4) ELSE Zero
             r2 == IF CvAbove3(amounts) THEN FAdd(r1, Tenths(3)) ELSE r1
             r3 == IF 10 * RoundCount(amounts) > 8 * RunCount(amounts)
                   THEN FAdd(r2, Tenths(2)) ELSE r2
         IN  FastSignal("amount_distribution", PyMin(r3, One), Tenths(7))

\* now is the reading of datetime.now() this call takes, in days
temporal_pattern_signal(df, meta, now) ==
    IF ~Has(df, "timestamp") \/ AllNull(df, "timestamp") THEN None
    \* pd.to_datetime raises inside the try: the bare except returns None
    ELSE IF df.timestamp.bad THEN None
    ELSE LET timestamps == df.timestamp.times
             n == RunCount(timestamps)
             time_diff == n - 1
             r1 == IF time_diff > 0 /\ 10 * df.timestamp.fast > 8 * time_diff
                   THEN Tenths(4) ELSE Zero
             r2 == IF FutureCount(timestamps, now) > 0 THEN FAdd(r1, Tenths(3)) ELSE r1
             r3 == IF 2 * OldCount(timestamps, now) > n THEN FAdd(r2, Tenths(2)) ELSE r2
         IN  IF n < 5 THEN None
             ELSE FastSignal("temporal_pattern", PyMin(r3, One), Tenths(6))

user_behavior_signal(df, meta) ==
    IF ~Has(df, "user_id") \/ AllNull(df, "user_id") THEN None
    ELSE LET user_counts == df.user_id.users
             r1 == IF 10 * MaxUserRows(user_counts) > 8 * df.rows THEN Tenths(4) ELSE Zero
             r2 == IF 10 * UserCount(user_counts) > 9 * df.rows /\ df.rows > 100
                   THEN FAdd(r1, Tenths(2)) ELSE r1
         IN  IF UserCount(user_counts) < 2 THEN None
             ELSE FastSignal("user_behavior", PyMin(r2, One), Tenths(7))

(***************************************************************************)
(* The engine's table self.signals: a dict, kept as the sequence of its    *)
(* entries in insertion order.  An entry of the default table names one of *)
(* the five functions above.  The table is a public attribute, assigned    *)
(* whole by _register_default_signals; a table put in its place can hold   *)
(* any callable, modelled by stubs that ignore the dataset and always end  *)
(* in the outcome they carry.                                              *)
(***************************************************************************)
BuiltinSignal(name) == [name |-> name, fn |-> name, out |-> None]
StubSignal(name, out) == [name |-> name, fn |-> "stub", out |-> out]

DefaultSignals ==
    << BuiltinSignal("data_quality"), BuiltinSignal("file_size"),
       BuiltinSignal("amount_distribution"), BuiltinSignal("temporal_pattern"),
       BuiltinSignal("user_behavior") >>

\* signal_func(df, file_metadata)
CallSignal(entry, df, meta, now) ==
    CASE entry.fn = "data_quality" -> data_quality_signal(df, meta)
      [] entry.fn = "file_size" -> file_size_signal(df, meta)
      [] entry.fn = "amount_distribution" -> amount_distribution_signal(df, meta)
      [] entry.fn = "temporal_pattern" -> temporal_pattern_signal(df, meta, now)
      [] entry.fn = "user_behavior" -> user_behavior_signal(df, meta)
      [] OTHER -> entry.out

(***************************************************************************)
(* FastSignalEngine.calculate_all_signals and get_aggregate_risk_score.    *)
(***************************************************************************)
\* one pass of the loop without its try/except: an exception leaves it
SignalStepUncaught(acc, signal_name, signal_result) ==
    IF acc.raised THEN acc
    ELSE [results |-> IF signal_result.kind = "signal"
                      THEN Append(acc.results, signal_result)
                      ELSE acc.results,
          calls |-> Append(acc.calls, signal_name),
          failed |-> acc.failed,
          raised |-> signal_result.kind = "raise"]

\* One pass of the for loop: the try/except around the call of the entry
\* signal_name.  calls lists the functions called, failed the names
\* printed by the except branch, and raised tells whether an exception
\* left the loop.
SignalStep(acc, signal_name, signal_result) ==
    [results |-> IF signal_result.kind = "signal"
                 THEN Append(acc.results, signal_result)
                 ELSE acc.results,
     calls |-> Append(acc.calls, signal_name),
     failed |-> IF signal_result.kind = "raise"
                THEN Append(acc.failed, signal_name)
                ELSE acc.failed,
     raised |-> FALSE]

RECURSIVE SignalLoop(_, _, _, _, _)
SignalLoop(table, df, meta, now, acc) ==
    IF table = <<>> THEN acc
    ELSE SignalLoop(Tail(table), df, meta, now,
             SignalStep(acc, Head(table).name, CallSignal(Head(table), df, meta, now)))

calculate_all_signals(table, df, meta, now) ==
    SignalLoop(table, df, meta, now,
               [results |-> <<>>, calls |-> <<>>, failed |-> <<>>, raised |-> FALSE])

RECURSIVE FSum(_)
FSum(s) == IF s = <<>> THEN Zero ELSE FAdd(Head(s), FSum(Tail(s)))

\* the mean of the risks without the confidence weights
get_unweighted_risk_score(sigs) ==
    IF sigs = <<>> THEN Zero
    ELSE LET total_weight == FSum([i \in DOMAIN sigs |-> sigs[i].confidence])
         IN  IF total_weight = Zero THEN Zero
             ELSE FDiv(FSum([i \in DOMAIN sigs |-> sigs[i].risk_score]),
                       Frac(Len(sigs), 1))

get_aggregate_risk_score(sigs) ==
    IF sigs = <<>> THEN Zero
    ELSE LET weighted_scores ==
                 [i \in DOMAIN sigs |-> FMul(sigs[i].risk_score, sigs[i].confidence)]
             total_weight == FSum([i \in DOMAIN sigs |-> sigs[i].confidence])
         IN  IF total_weight = Zero THEN Zero
             ELSE FDiv(FSum(weighted_scores), total_weight)

(***************************************************************************)
(* services/rule_metadata.py: RuleCost, RuleMetadata, the predicates.      *)
(***************************************************************************)
\* RuleCost is a str enum: its values are the strings the registry's sort
\* compares, kept here as their code points.
RuleCostValue(cost) ==
    CASE cost = "cheap" -> <<99, 104, 101, 97, 112>>
      [] cost = "medium" -> <<109, 101, 100, 105, 117, 109>>
      [] cost = "expensive" -> <<101, 120, 112, 101, 110, 115, 105, 118, 101>>

\* Python's str <
RECURSIVE StrLt(_, _)
StrLt(a, b) ==
    IF b = <<>> THEN FALSE
    ELSE IF a = <<>> THEN TRUE
    ELSE IF Head(a) # Head(b) THEN Head(a) < Head(b)
    ELSE StrLt(Tail(a), Tail(b))

RuleMetadata(name, category, cost, predicates, priority, risk_threshold) ==
    [name |-> name, category |-> category, cost |-> cost, predicates |-> predicates,
     priority |-> priority, risk_threshold |-> risk_threshold]

\* file_metadata.get(key, default); a metadata mapping is a function whose
\* domain is the keys it holds
Get(meta, key, default) == IF key \in DOMAIN meta THEN meta[key] ELSE default

\* a Python bool as the outcome of a call
Bool(b) == IF b THEN "True" ELSE "False"

\* The conditions of the built-in predicates: the lambdas of
\* _register_default_rules.  A call ends in "True", "False" or "raise".
has_amount_field(df, meta) == Bool(Has(df, "amount") /\ AnyNotNull(df, "amount"))
sufficient_data(df, meta) == Bool(df.rows >= 10)
\* the predicate asking for a user_id column as well
has_amount_merchant_user(df, meta) == Bool({"amount", "merchant", "user_id"} \subseteq Columns(df))
has_amount_merchant(df, meta) == Bool({"amount", "merchant"} \subseteq Columns(df))
has_timestamp(df, meta) == Bool(Has(df, "timestamp"))
\* the predicate that lets every file type pass
not_inventory_only_ignored(df, meta) == "True"
not_inventory_only(df, meta) == Bool(Get(meta, "file_type", "") # "inventory")
has_user_timestamp(df, meta) == Bool({"user_id", "timestamp"} \subseteq Columns(df))
\* df['user_id'] of a missing column raises KeyError
multiple_users(df, meta) ==
    IF Has(df, "user_id") THEN Bool(UserCount(df.user_id.users) > 1) ELSE "raise"
sufficient_data_for_ml(df, meta) == Bool(df.rows >= 50)
has_numeric_features(df, meta) == Bool(NumericColumns(df) >= 2)
not_high_risk_already(df, meta) == Bool(FLt(Get(meta, "risk_score", Zero), Tenths(8)))
is_inventory_file(df, meta) == Bool(Get(meta, "file_type", "") = "inventory")
has_quantity_field(df, meta) == Bool(Has(df, "quantity"))

\* predicate.condition(df, file_metadata), the predicate given by its name.
\* The last three stand for the callables register_rule can be given.
Condition(p, df, meta) ==
    CASE p = "has_amount_field" -> has_amount_field(df, meta)
      [] p = "sufficient_data" -> sufficient_data(df, meta)
      [] p = "has_amount_merchant" -> has_amount_merchant(df, meta)
      [] p = "has_timestamp" -> has_timestamp(df, meta)
      [] p = "not_inventory_only" -> not_inventory_only(df, meta)
      [] p = "has_user_timestamp" -> has_user_timestamp(df, meta)
      [] p = "multiple_users" -> multiple_users(df, meta)
      [] p = "sufficient_data_for_ml" -> sufficient_data_for_ml(df, meta)
      [] p = "has_numeric_features" -> has_numeric_features(df, meta)
      [] p = "not_high_risk_already" -> not_high_risk_already(df, meta)
      [] p = "is_inventory_file" -> is_inventory_file(df, meta)
      [] p = "has_quantity_field" -> has_quantity_field(df, meta)
      [] p = "const_true" -> "True"
      [] p = "const_false" -> "False"
      [] p = "raises" -> "raise"

\* _register_default_rules, in registration order
DefaultRules ==
    << RuleMetadata("high_value_transactions", "financial", "cheap",
                    <<"has_amount_field", "sufficient_data">>, 8, Zero),
       RuleMetadata("duplicate_transactions", "financial", "cheap",
                    <<"has_amount_merchant", "has_timestamp">>, 7, Zero),
       RuleMetadata("off_hours_transactions", "temporal", "cheap",
                    <<"has_timestamp", "not_inventory_only">>, 6, Zero),
       RuleMetadata("rapid_successive_transactions", "behavioral", "medium",
                    <<"has_user_timestamp", "multiple_users">>, 7, Zero),
       RuleMetadata("anomaly_detection", "ml_anomaly", "expensive",
                    <<"sufficient_data_for_ml", "has_numeric_features",
                      "not_high_risk_already">>, 5, Zero),
       RuleMetadata("inventory_movement_anomalies", "inventory", "medium",
                    <<"is_inventory_file", "has_quantity_field">>, 6, Zero) >>

(***************************************************************************)
(* RuleRegistry.  self.rules is a dict, kept as the sequence of its        *)
(* values in insertion order; the names in it are distinct.                *)
(***************************************************************************)
RuleNames(rs) == {rs[i].name : i \in DOMAIN rs}

\* a registry kept as a list: self.rules.append(metadata)
register_rule_appended(rs, metadata) == Append(rs, metadata)

\* self.rules[metadata.name] = metadata: an existing key keeps its place
register_rule(rs, metadata) ==
    IF metadata.name \in RuleNames(rs)
    THEN [i \in DOMAIN rs |-> IF rs[i].name = metadata.name THEN metadata ELSE rs[i]]
    ELSE Append(rs, metadata)

NoRule == RuleMetadata("", "", "", <<>>, 0, Zero)

\* self.rules.get(rule_name)
get_rule_metadata(rs, rule_name) ==
    IF rule_name \in RuleNames(rs)
    THEN rs[CHOOSE i \in DOMAIN rs : rs[i].name = rule_name]
    ELSE NoRule

\* Python's < on the sort keys: a key is a pair of an int and a str (the
\* empty str where the key is the int alone)
KeyLt(a, b) == a[1] < b[1] \/ (a[1] = b[1] /\ StrLt(a[2], b[2]))

\* list.sort / sorted with a key function: stable, so an element goes
\* before the first one with a greater key and after the ones with an
\* equal key that came before it
RECURSIVE InsertStable(_, _, _)
InsertStable(sorted, x, key) ==
    IF sorted = <<>> THEN <<x>>
    ELSE IF KeyLt(key[x], key[Head(sorted)]) THEN <<x>> \o sorted
    ELSE <<Head(sorted)>> \o InsertStable(Tail(sorted), x, key)

RECURSIVE StableSort(_, _)
StableSort(s, key) ==
    IF s = <<>> THEN <<>>
    ELSE InsertStable(StableSort(SubSeq(s, 1, Len(s) - 1), key), s[Len(s)], key)

\* result = predicate.condition(...) without the try/except around it
PredicateResultUncaught(p, df, meta) == Condition(p, df, meta)

\* try: result = predicate.condition(...) except: False.  An outcome
\* still "raise" after this is an exception on its way to the caller.
PredicateResult(p, df, meta) ==
    LET result == Condition(p, df, meta)
    IN  IF result = "raise" THEN "False" ELSE result

\* any(predicate_results) in place of all(predicate_results)
AnyPredicatePasses(rule_meta, df, meta) ==
    \E i \in DOMAIN rule_meta.predicates :
        PredicateResult(rule_meta.predicates[i], df, meta) = "True"

\* all(predicate_results)
AllPredicatesPass(rule_meta, df, meta) ==
    \A i \in DOMAIN rule_meta.predicates :
        PredicateResult(rule_meta.predicates[i], df, meta) = "True"

\* an exception leaves the loop over the rules
PredicateEscapes(rs, df, meta) ==
    \E i \in DOMAIN rs : \E j \in DOMAIN rs[i].predicates :
        PredicateResult(rs[i].predicates[j], df, meta) = "raise"

\* key=lambda name: (-self.rules[name].priority, self.rules[name].cost.value)
RegistryKey(rs, names) ==
    [name \in Range(names) |->
        LET rule_meta == get_rule_metadata(rs, name)
        IN  <<-rule_meta.priority, RuleCostValue(rule_meta.cost)>>]

\* the list returned, and raised: whether an exception reached the caller
get_applicable_rules(rs, df, meta) ==
    LET passing == SelectSeq(rs, LAMBDA rule_meta : AllPredicatesPass(rule_meta, df, meta))
        applicable == [i \in DOMAIN passing |-> passing[i].name]
    IN  IF PredicateEscapes(rs, df, meta)
        THEN [raised |-> TRUE, value |-> <<>>]
        ELSE [raised |-> FALSE,
              value |-> StableSort(applicable, RegistryKey(rs, applicable))]

(***************************************************************************)
(* services/rule_router.py: RuleRouter.                                    *)
(***************************************************************************)
\* a cost table none of whose keys is found: every lookup gives the default
CostEstimateDefault(cost) == 100

\* self.cost_estimates.get(rule_meta.cost, 100)
CostEstimate(cost) ==
    CASE cost = "cheap" -> 10
      [] cost = "medium" -> 100
      [] cost = "expensive" -> 1000
      [] OTHER -> 100

\* the filter without the file_type exemption of line 90
_filter_rules_ignoring_file_type(rs, names, risk_score, meta) ==
    SelectSeq(names, LAMBDA rule_name :
        LET rule_meta == get_rule_metadata(rs, rule_name)
        IN  /\ rule_meta # NoRule
            /\ ~(rule_meta.cost = "expensive" /\ FLt(risk_score, Tenths(3)))
            /\ ~FLt(risk_score, rule_meta.risk_threshold))

_filter_rules_by_risk_and_cost(rs, names, risk_score, meta) ==
    SelectSeq(names, LAMBDA rule_name :
        LET rule_meta == get_rule_metadata(rs, rule_name)
        IN  /\ rule_meta # NoRule
            /\ ~(/\ rule_meta.cost = "expensive"
                 /\ FLt(risk_score, Tenths(3))
                 /\ Get(meta, "file_type", "") # "financial")
            /\ ~FLt(risk_score, rule_meta.risk_threshold))

\* sorted(rule_list, key=lambda name: -get_rule_metadata(name).priority)
sort_by_priority(rs, rule_list) ==
    StableSort(rule_list,
               [name \in Range(rule_list) |-> <<-get_rule_metadata(rs, name).priority, <<>> >>])

\* the groups concatenated in the order of the RuleCost values as strings
_order_rules_by_cost_value(rs, names) ==
    LET known == SelectSeq(names, LAMBDA n : get_rule_metadata(rs, n) # NoRule)
        cheap_rules == SelectSeq(known, LAMBDA n : get_rule_metadata(rs, n).cost = "cheap")
        medium_rules == SelectSeq(known, LAMBDA n : get_rule_metadata(rs, n).cost = "medium")
        expensive_rules ==
            SelectSeq(known, LAMBDA n : get_rule_metadata(rs, n).cost \notin {"cheap", "medium"})
    IN  sort_by_priority(rs, cheap_rules) \o sort_by_priority(rs, expensive_rules)
            \o sort_by_priority(rs, medium_rules)

_order_rules_for_execution(rs, names) ==
    LET known == SelectSeq(names, LAMBDA n : get_rule_metadata(rs, n) # NoRule)
        cheap_rules == SelectSeq(known, LAMBDA n : get_rule_metadata(rs, n).cost = "cheap")
        medium_rules == SelectSeq(known, LAMBDA n : get_rule_metadata(rs, n).cost = "medium")
        expensive_rules ==
            SelectSeq(known, LAMBDA n : get_rule_metadata(rs, n).cost \notin {"cheap", "medium"})
    IN  sort_by_priority(rs, cheap_rules) \o sort_by_priority(rs, medium_rules)
            \o sort_by_priority(rs, expensive_rules)

RECURSIVE _calculate_estimated_cost(_, _)
_calculate_estimated_cost(rs, names) ==
    IF names = <<>> THEN 0
    ELSE LET rule_meta == get_rule_metadata(rs, Head(names))
         IN  (IF rule_meta # NoRule THEN CostEstimate(rule_meta.cost) ELSE 0)
                 + _calculate_estimated_cost(rs, Tail(names))

\* a breakdown entry that takes the default time for every tier
RuleStatDefaultTime(rule_name, rule_meta) ==
    [rule_name |-> rule_name, category |-> rule_meta.category, cost |-> rule_meta.cost,
     priority |-> rule_meta.priority, estimated_time_ms |-> CostEstimateDefault(rule_meta.cost)]

\* the value of rule_stats[rule_name], with its key
RuleStat(rule_name, rule_meta) ==
    [rule_name |-> rule_name, category |-> rule_meta.category, cost |-> rule_meta.cost,
     priority |-> rule_meta.priority, estimated_time_ms |-> CostEstimate(rule_meta.cost)]

\* rule_stats[rule_name] = {...}, for a dict kept as its items in insertion
\* order
SetStat(rule_stats, stat) ==
    IF \E i \in DOMAIN rule_stats : rule_stats[i].rule_name = stat.rule_name
    THEN [i \in DOMAIN rule_stats |->
            IF rule_stats[i].rule_name = stat.rule_name THEN stat ELSE rule_stats[i]]
    ELSE Append(rule_stats, stat)

\* for rule_name in execution_plan.rules_to_execute
RECURSIVE RuleStatsLoop(_, _, _)
RuleStatsLoop(rs, names, rule_stats) ==
    IF names = <<>> THEN rule_stats
    ELSE RuleStatsLoop(rs, Tail(names),
            IF get_rule_metadata(rs, Head(names)) # NoRule
            THEN SetStat(rule_stats, RuleStat(Head(names), get_rule_metadata(rs, Head(names))))
            ELSE rule_stats)

get_rule_execution_stats(rs, execution_plan) ==
    [total_rules |-> Len(execution_plan.rules_to_execute),
     estimated_total_time_ms |-> execution_plan.estimated_cost,
     rule_breakdown |-> RuleStatsLoop(rs, execution_plan.rules_to_execute, <<>>),
     early_termination_threshold |-> execution_plan.early_termination_threshold]

\* file_metadata[key] = value
SetItem(meta, key, value) ==
    [k \in DOMAIN meta \cup {key} |-> IF k = key THEN value ELSE meta[k]]

RuleExecutionPlan(rules_to_execute, estimated_cost, risk_threshold, early_termination_threshold, execution_order) ==
    [rules_to_execute |-> rules_to_execute, estimated_cost |-> estimated_cost,
     risk_threshold |-> risk_threshold,
     early_termination_threshold |-> early_termination_threshold,
     execution_order |-> execution_order]

\* the aggregate risk without the floor of lines 46-47
UnflooredRisk(aggregate_risk) == aggregate_risk

\* aggregate_risk = max(aggregate_risk, base_risk)
FloorRisk(aggregate_risk) ==
    LET base_risk == Tenths(1)
    IN  PyMax(aggregate_risk, base_risk)

\* the mapping without the write of line 50
WithoutRiskScoreUpdate(file_metadata, aggregate_risk) == file_metadata

\* file_metadata = {'risk_score': aggregate_risk}: a fresh mapping in place of
\* the caller's
ReplacedByRiskScore(file_metadata, aggregate_risk) ==
    [k \in {"risk_score"} |-> aggregate_risk]

\* file_metadata['risk_score'] = aggregate_risk
UpdateRiskScore(file_metadata, aggregate_risk) ==
    SetItem(file_metadata, "risk_score", aggregate_risk)

\* 0.9 if aggregate_risk >= 0.7 else 0.8
EarlyTerminationThresholdFrom07(aggregate_risk) ==
    IF FGe(aggregate_risk, Tenths(7)) THEN Tenths(9) ELSE Tenths(8)

\* 0.9 if aggregate_risk > 0.7 else 0.8
EarlyTerminationThreshold(aggregate_risk) ==
    IF FGt(aggregate_risk, Tenths(7)) THEN Tenths(9) ELSE Tenths(8)

\* current_risk_score > early_termination_threshold
should_terminate_above(current_risk_score, early_termination_threshold) ==
    FGt(current_risk_score, early_termination_threshold)

\* return current_risk_score >= early_termination_threshold
should_terminate_early(current_risk_score, early_termination_threshold) ==
    FGe(current_risk_score, early_termination_threshold)

\* create_execution_plan, statement by statement.  Each step below takes
\* the values of the locals assigned so far and ends in what the call
\* gives: the plan returned, the caller's mapping as the call leaves it,
\* and the values of the locals fast_signals, aggregate_risk
\* (computed_risk before the floor) and applicable_rules.

\* lines 63-75: the cost, the threshold and the plan
PlanOfOrder(rs, meta1, fast, computed_risk, aggregate_risk, applicable_rules, execution_order) ==
    [raised |-> fast.raised \/ applicable_rules.raised,
     file_metadata |-> meta1,
     fast |-> fast,
     computed_risk |-> computed_risk,
     aggregate_risk |-> aggregate_risk,
     applicable_rules |-> applicable_rules.value,
     plan |-> RuleExecutionPlan(execution_order,
                                _calculate_estimated_cost(rs, execution_order),
                                Tenths(3),
                                EarlyTerminationThreshold(aggregate_risk),
                                execution_order)]

\* lines 55-61: filtered_rules and execution_order
PlanOfApplicable(rs, meta1, fast, computed_risk, aggregate_risk, applicable_rules) ==
    PlanOfOrder(rs, meta1, fast, computed_risk, aggregate_risk, applicable_rules,
        _order_rules_for_execution(rs,
            _filter_rules_by_risk_and_cost(rs, applicable_rules.value, aggregate_risk, meta1)))

\* lines 52-53: applicable_rules, read from the updated mapping
PlanOfMetadata(rs, df, meta1, fast, computed_risk, aggregate_risk) ==
    PlanOfApplicable(rs, meta1, fast, computed_risk, aggregate_risk,
        get_applicable_rules(rs, df, meta1))

\* lines 49-50: the write to the caller's mapping
PlanOfRisk(rs, df, file_metadata, fast, computed_risk, aggregate_risk) ==
    PlanOfMetadata(rs, df, UpdateRiskScore(file_metadata, aggregate_risk),
        fast, computed_risk, aggregate_risk)

\* lines 45-47: the floor
PlanOfComputedRisk(rs, df, file_metadata, fast, computed_risk) ==
    PlanOfRisk(rs, df, file_metadata, fast, computed_risk, FloorRisk(computed_risk))

\* line 43: the aggregate risk of the fast signals
PlanOfSignals(rs, df, file_metadata, fast) ==
    PlanOfComputedRisk(rs, df, file_metadata, fast, get_aggregate_risk_score(fast.results))

\* line 42: the fast signals
create_execution_plan(rs, table, df, file_metadata, now) ==
    PlanOfSignals(rs, df, file_metadata, calculate_all_signals(table, df, file_metadata, now))

(***************************************************************************)
(* services/fraud_detection.py.  _apply_rule chooses the detection routine *)
(* by the rule's name; what a routine finds depends on the transactions,   *)
(* so the dispatch is modelled by the routine it returns the result of.    *)
(***************************************************************************)
\* else: return set(), 0
NoDetection == "set(), 0"

\* FraudDetectionService._apply_rule
_apply_rule(rule_name) ==
    IF rule_name = "duplicate_transactions" THEN "_detect_duplicate_transactions"
    ELSE IF rule_name = "high_value_transactions" THEN "_detect_high_value_transactions"
    ELSE IF rule_name = "off_hours_transactions" THEN "_detect_off_hours_transactions"
    ELSE IF rule_name = "rapid_successive_transactions"
         THEN "_detect_rapid_successive_transactions"
    ELSE IF rule_name = "anomaly_detection" THEN "_detect_anomalies"
    ELSE NoDetection

(***************************************************************************)
(* services/schema_canonicalizer.py.  The canonicalizer reads column names *)
(* character by character (lower, strip, substring tests), so a name is    *)
(* looked up in Spelling for the characters it is made of.  A DataFrame is *)
(* here the row count and the columns in order, each with its name and     *)
(* what the code reads of its cells:                                       *)
(*   dtype    "number" | "object"                                          *)
(*   nulls    how many cells are null                                      *)
(*   neg      how many cells are < 0                                       *)
(*   extreme  whether max() > quantile(0.99) * 10                          *)
(*   bad      whether pd.to_datetime raises on the column                  *)
(***************************************************************************)
Spelling ==
    "item_code" :> <<"i", "t", "e", "m", "_", "c", "o", "d", "e">> @@
    "movement_id" :> <<"m", "o", "v", "e", "m", "e", "n", "t", "_", "i", "d">> @@
    "quantity" :> <<"q", "u", "a", "n", "t", "i", "t", "y">> @@
    "item_name" :> <<"i", "t", "e", "m", "_", "n", "a", "m", "e">> @@
    "movement_type" :> <<"m", "o", "v", "e", "m", "e", "n", "t", "_", "t", "y", "p", "e">> @@
    "transaction_id" :> <<"t", "r", "a", "n", "s", "a", "c", "t", "i", "o", "n", "_", "i", "d">> @@
    "payment_method" :> <<"p", "a", "y", "m", "e", "n", "t", "_", "m", "e", "t", "h", "o", "d">> @@
    "amount" :> <<"a", "m", "o", "u", "n", "t">> @@
    "merchant" :> <<"m", "e", "r", "c", "h", "a", "n", "t">> @@
    "currency" :> <<"c", "u", "r", "r", "e", "n", "c", "y">> @@
    "log_id" :> <<"l", "o", "g", "_", "i", "d">> @@
    "event_id" :> <<"e", "v", "e", "n", "t", "_", "i", "d">> @@
    "user_agent" :> <<"u", "s", "e", "r", "_", "a", "g", "e", "n", "t">> @@
    "source_ip" :> <<"s", "o", "u", "r", "c", "e", "_", "i", "p">> @@
    "action" :> <<"a", "c", "t", "i", "o", "n">> @@
    "out" :> <<"o", "u", "t">> @@
    "card" :> <<"c", "a", "r", "d">> @@
    "payment" :> <<"p", "a", "y", "m", "e", "n", "t">> @@
    "login" :> <<"l", "o", "g", "i", "n">> @@
    "auth" :> <<"a", "u", "t", "h">> @@
    "timestamp" :> <<"t", "i", "m", "e", "s", "t", "a", "m", "p">> @@
    "date" :> <<"d", "a", "t", "e">> @@
    "user_id" :> <<"u", "s", "e", "r", "_", "i", "d">> @@
    "user" :> <<"u", "s", "e", "r">> @@
    "value" :> <<"v", "a", "l", "u", "e">> @@
    "total_value" :> <<"t", "o", "t", "a", "l", "_", "v", "a", "l", "u", "e">> @@
    "note" :> <<"n", "o", "t", "e">> @@
    "id" :> <<"i", "d">> @@
    "checkout" :> <<"c", "h", "e", "c", "k", "o", "u", "t">> @@
    "card_type" :> <<"c", "a", "r", "d", "_", "t", "y", "p", "e">> @@
    "login_time" :> <<"l", "o", "g", "i", "n", "_", "t", "i", "m", "e">> @@
    " Amount " :> <<" ", "A", "m", "o", "u", "n", "t", " ">> @@
    "Quantity" :> <<"Q", "u", "a", "n", "t", "i", "t", "y">> @@
    "username" :> <<"u", "s", "e", "r", "n", "a", "m", "e">> @@
    "ip" :> <<"i", "p">> @@
    "store" :> <<"s", "t", "o", "r", "e">> @@
    "location" :> <<"l", "o", "c", "a", "t", "i", "o", "n">> @@
    "country" :> <<"c", "o", "u", "n", "t", "r", "y">> @@
    "time" :> <<"t", "i", "m", "e">>

\* str.lower() on the characters
Lower(chars) ==
    [i \in DOMAIN chars |-> CASE chars[i] = "A" -> "a"
                              [] chars[i] = "Q" -> "q"
                              [] OTHER -> chars[i]]

\* str.strip(): leading and trailing blanks removed
RECURSIVE Strip(_)
Strip(chars) ==
    IF chars = <<>> THEN <<>>
    ELSE IF Head(chars) = " " THEN Strip(Tail(chars))
    ELSE IF chars[Len(chars)] = " " THEN Strip(SubSeq(chars, 1, Len(chars) - 1))
    ELSE chars

\* needle in hay, for two strs
Contains(hay, needle) ==
    \E i \in 1..(Len(hay) - Len(needle) + 1) : SubSeq(hay, i, i + Len(needle) - 1) = needle

\* origin tells whose cells a column holds: the source column's name, or ""
\* for a column made of None
Column(name, dtype, nulls, neg, extreme, bad) ==
    [name |-> name, origin |-> name, dtype |-> dtype, nulls |-> nulls, neg |-> neg,
     extreme |-> extreme, bad |-> bad]

Frame(rows, cols) == [rows |-> rows, cols |-> cols]

\* df.columns
ColumnNames(df) == {df.cols[i].name : i \in DOMAIN df.cols}

\* df[name]
GetColumn(df, name) == df.cols[CHOOSE i \in DOMAIN df.cols : df.cols[i].name = name]

\* max() that lets a later key replace an equal one
RECURSIVE MaxKeyLast(_, _, _)
MaxKeyLast(keys, scores, best) ==
    IF keys = <<>> THEN best
    ELSE MaxKeyLast(Tail(keys), scores,
                    IF scores[Head(keys)] >= scores[best] THEN Head(keys) ELSE best)

\* the first key with the greatest score, as max(scores, key=scores.get)
\* finds it: a later key replaces the best one only if its score is greater
RECURSIVE MaxKey(_, _, _)
MaxKey(keys, scores, best) ==
    IF keys = <<>> THEN best
    ELSE MaxKey(Tail(keys), scores,
                IF scores[Head(keys)] > scores[best] THEN Head(keys) ELSE best)

\* any(token in col for col in columns)
AnyColumnHas(columns, token) ==
    \E i \in DOMAIN columns : Contains(columns[i], Spelling[token])

\* 2 for each indicator some column has
IndicatorScore(columns, indicators) ==
    2 * Cardinality({k \in DOMAIN indicators : AnyColumnHas(columns, indicators[k])})

\* scores, after the indicators and the additional heuristics
FileTypeScores(columns) ==
    [inventory |->
        IndicatorScore(columns, <<"item_code", "movement_id", "quantity", "item_name", "movement_type">>)
        + (IF AnyColumnHas(columns, "out") THEN 1 ELSE 0),
     financial |->
        IndicatorScore(columns, <<"transaction_id", "payment_method", "amount", "merchant", "currency">>)
        + (IF AnyColumnHas(columns, "card") \/ AnyColumnHas(columns, "payment") THEN 1 ELSE 0),
     security_logs |->
        IndicatorScore(columns, <<"log_id", "event_id", "user_agent", "source_ip", "action">>)
        + (IF AnyColumnHas(columns, "login") \/ AnyColumnHas(columns, "auth") THEN 1 ELSE 0)]

\* columns = [col.lower().strip() for col in df.columns]
LoweredColumns(df) == [i \in DOMAIN df.cols |-> Strip(Lower(Spelling[df.cols[i].name]))]

\* the keys of scores in insertion order
FileTypes == <<"inventory", "financial", "security_logs">>

\* best_type = max(scores, key=scores.get);
\* confidence = min(scores[best_type] / 10.0, 1.0)
BestMatch(scores, best_type) ==
    [file_type |-> best_type, confidence |-> PyMin(Frac(scores[best_type], 10), One)]

BestOfScores(scores) == BestMatch(scores, MaxKey(Tail(FileTypes), scores, Head(FileTypes)))

detect_file_type(df) == BestOfScores(FileTypeScores(LoweredColumns(df)))

\* self.field_mappings: per file type the canonical fields in insertion
\* order, each with its possible source fields in order
field_mappings ==
    [inventory |->
        << [canonical_field |-> "id", possible_fields |-> <<"movement_id", "transaction_id", "id">>],
           [canonical_field |-> "timestamp", possible_fields |-> <<"date", "time", "datetime", "timestamp">>],
           [canonical_field |-> "amount", possible_fields |-> <<"total_value", "value", "cost", "amount", "price">>],
           [canonical_field |-> "merchant", possible_fields |-> <<"item_name", "product", "item_code", "merchant">>],
           [canonical_field |-> "location", possible_fields |-> <<"location", "warehouse", "store">>],
           [canonical_field |-> "user_id", possible_fields |-> <<"employee_id", "user", "staff_id", "user_id">>],
           [canonical_field |-> "quantity", possible_fields |-> <<"quantity", "qty", "count">>] >>,
     financial |->
        << [canonical_field |-> "id", possible_fields |-> <<"transaction_id", "id", "txn_id">>],
           [canonical_field |-> "timestamp", possible_fields |-> <<"timestamp", "date", "created_at", "time">>],
           [canonical_field |-> "amount", possible_fields |-> <<"amount", "value", "total", "sum">>],
           [canonical_field |-> "merchant", possible_fields |-> <<"merchant", "store", "vendor", "business">>],
           [canonical_field |-> "location", possible_fields |-> <<"location", "address", "city", "country">>],
           [canonical_field |-> "user_id", possible_fields |-> <<"user_id", "customer_id", "account_id", "client_id">>],
           [canonical_field |-> "payment_method", possible_fields |-> <<"payment_method", "method", "type", "card_type">>],
           [canonical_field |-> "ip_address", possible_fields |-> <<"ip_address", "ip", "client_ip">>],
           [canonical_field |-> "device_info", possible_fields |-> <<"device_info", "device", "user_agent", "browser">>] >>,
     security_logs |->
        << [canonical_field |-> "id", possible_fields |-> <<"log_id", "event_id", "id">>],
           [canonical_field |-> "timestamp", possible_fields |-> <<"timestamp", "time", "datetime", "created_at">>],
           [canonical_field |-> "user_id", possible_fields |-> <<"user_id", "username", "user", "account">>],
           [canonical_field |-> "ip_address", possible_fields |-> <<"ip_address", "ip", "source_ip">>],
           [canonical_field |-> "device_info", possible_fields |-> <<"user_agent", "device", "browser", "os">>],
           [canonical_field |-> "location", possible_fields |-> <<"location", "country", "city", "region">>] >>]

\* canonical_df[name] = column, for a frame kept as its columns in order: a
\* column of that name is replaced where it stands, a new one goes last
PutColumn(cols, column) ==
    IF \E i \in DOMAIN cols : cols[i].name = column.name
    THEN [i \in DOMAIN cols |-> IF cols[i].name = column.name THEN column ELSE cols[i]]
    ELSE Append(cols, column)

\* a column of rows cells, all None (NaN)
EmptyColumn(name, rows) ==
    [name |-> name, origin |-> "", dtype |-> "object", nulls |-> rows, neg |-> 0,
     extreme |-> FALSE, bad |-> FALSE]

\* canonical_df[name] = df[field].  A frame without rows takes the index of
\* a Series that has rows, and the columns it had are filled with NaN.
SetSeries(canonical_df, name, series, rows) ==
    [rows |-> IF canonical_df.rows = 0 THEN rows ELSE canonical_df.rows,
     cols |-> PutColumn(IF canonical_df.rows = 0 /\ rows > 0
                        THEN [i \in DOMAIN canonical_df.cols |->
                                EmptyColumn(canonical_df.cols[i].name, rows)]
                        ELSE canonical_df.cols,
                        [series EXCEPT !.name = name])]

\* canonical_df[name] = None
SetNone(canonical_df, name) ==
    [rows |-> canonical_df.rows,
     cols |-> PutColumn(canonical_df.cols, EmptyColumn(name, canonical_df.rows))]

\* detected_schema[field] = canonical_field, for a dict kept as its items
\* in insertion order
SetSchema(detected_schema, field, canonical_field) ==
    IF \E i \in DOMAIN detected_schema : detected_schema[i].field = field
    THEN [i \in DOMAIN detected_schema |->
            IF detected_schema[i].field = field
            THEN [field |-> field, canonical_field |-> canonical_field]
            ELSE detected_schema[i]]
    ELSE Append(detected_schema, [field |-> field, canonical_field |-> canonical_field])

\* the inner loop without its break: the last of possible_fields in df.columns
RECURSIVE LastPresent(_, _)
LastPresent(possible_fields, df) ==
    IF possible_fields = <<>> THEN ""
    ELSE IF LastPresent(Tail(possible_fields), df) # ""
         THEN LastPresent(Tail(possible_fields), df)
    ELSE IF Head(possible_fields) \in ColumnNames(df) THEN Head(possible_fields)
    ELSE ""

\* the inner loop: the first of possible_fields that is in df.columns, or ""
RECURSIVE FirstPresent(_, _)
FirstPresent(possible_fields, df) ==
    IF possible_fields = <<>> THEN ""
    ELSE IF Head(possible_fields) \in ColumnNames(df) THEN Head(possible_fields)
    ELSE FirstPresent(Tail(possible_fields), df)

\* one pass of the outer loop, mapped_field being what the inner loop found
MapField(acc, df, canonical_field, mapped_field) ==
    IF mapped_field = ""
    THEN [acc EXCEPT !.canonical_df = SetNone(@, canonical_field)]
    ELSE [canonical_df |-> SetSeries(acc.canonical_df, canonical_field,
                                     GetColumn(df, mapped_field), df.rows),
          detected_schema |-> SetSchema(acc.detected_schema, mapped_field, canonical_field)]

\* for canonical_field, possible_fields in mappings.items()
RECURSIVE MapLoop(_, _, _)
MapLoop(mappings, df, acc) ==
    IF mappings = <<>> THEN acc
    ELSE MapLoop(Tail(mappings), df,
                 MapField(acc, df, Head(mappings).canonical_field,
                          FirstPresent(Head(mappings).possible_fields, df)))

\* the unmapped columns left out
RawLoopSkipped(cols, rows, detected_schema, canonical_df) == canonical_df

\* for col in unmapped_cols: canonical_df[f"raw_{col}"] = df[col]
RECURSIVE RawLoop(_, _, _, _)
RawLoop(cols, rows, detected_schema, canonical_df) ==
    IF cols = <<>> THEN canonical_df
    ELSE RawLoop(Tail(cols), rows, detected_schema,
                 IF \E i \in DOMAIN detected_schema : detected_schema[i].field = Head(cols).name
                 THEN canonical_df
                 ELSE SetSeries(canonical_df, "raw_" \o Head(cols).name, Head(cols), rows))

\* what a float computation ends in: a value, nan, or an exception
Value(x) == [kind |-> "value", value |-> x]
NaN == [kind |-> "nan", value |-> Zero]
RaisedError == [kind |-> "raise", value |-> Zero]

\* df[name].notna().any() for a column the frame has
NotNaAny(df, name) == GetColumn(df, name).nulls < df.rows

\* lines 175-183: the amount checks.  (df['amount'] < 0) raises TypeError
\* on a column of text.
AmountRisk(df) ==
    IF "amount" \in ColumnNames(df) /\ NotNaAny(df, "amount")
    THEN IF GetColumn(df, "amount").dtype = "object" THEN RaisedError
         ELSE Value(FAdd(IF GetColumn(df, "amount").neg > 0
                         THEN PyMin(Frac(GetColumn(df, "amount").neg, df.rows), Tenths(2))
                         ELSE Zero,
                         IF GetColumn(df, "amount").extreme THEN Tenths(1) ELSE Zero))
    ELSE Value(Zero)

\* lines 186-190: the timestamp check
TimestampRisk(df) ==
    IF "timestamp" \in ColumnNames(df) /\ NotNaAny(df, "timestamp")
            /\ GetColumn(df, "timestamp").bad
    THEN Tenths(2) ELSE Zero

\* lines 193-197: the inventory check.  (df['quantity'] < 0) raises
\* TypeError on a column holding text; None cells compare as False.
QuantityRisk(df, file_type) ==
    IF file_type = "inventory" /\ "quantity" \in ColumnNames(df)
    THEN IF GetColumn(df, "quantity").dtype = "object" /\ NotNaAny(df, "quantity")
         THEN RaisedError
         ELSE Value(IF GetColumn(df, "quantity").neg > 0 THEN Tenths(1) ELSE Zero)
    ELSE Value(Zero)

\* df.isnull().sum().sum()
FrameNulls(df) == SeqSum([i \in DOMAIN df.cols |-> df.cols[i].nulls])

\* the sum of the parts, capped: min(risk_score, 1.0).  The missing data
\* ratio of a frame without cells is 0/0 in numpy arithmetic: nan, which
\* every later sum and the min keep.
SumRisk(df, amount, timestamp, quantity) ==
    IF amount.kind = "raise" \/ quantity.kind = "raise" THEN RaisedError
    ELSE IF df.rows * Len(df.cols) = 0 THEN NaN
    ELSE Value(PyMin(FAdd(FAdd(FMul(Frac(FrameNulls(df), df.rows * Len(df.cols)), Tenths(3)),
                               amount.value),
                          FAdd(timestamp, quantity.value)),
                     One))

_calculate_risk_score(df, file_type) ==
    SumRisk(df, AmountRisk(df), TimestampRisk(df), QuantityRisk(df, file_type))

FileMetadata(file_type, detected_schema, confidence, row_count, timestamp_seen, amount_seen, user_id_seen, risk_score) ==
    [file_type |-> file_type, detected_schema |-> detected_schema, confidence |-> confidence,
     row_count |-> row_count, has_timestamp |-> timestamp_seen, has_amount |-> amount_seen,
     has_user_id |-> user_id_seen, risk_score |-> risk_score]

NoFileMetadata == FileMetadata("", <<>>, Zero, 0, FALSE, FALSE, FALSE, NaN)

\* lines 152-164: the metadata and the return.  canonical_df[name] of a
\* column the frame lacks raises KeyError.  What the call gives: whether it
\* raised, the frame and the metadata returned, and the locals
\* detected_schema and canonical_df as the loops left them.
CanonicalOfRisk(df, detected, detected_schema, canonical_df, risk_score) ==
    IF risk_score.kind = "raise"
            \/ ~({"timestamp", "amount", "user_id"} \subseteq ColumnNames(canonical_df))
    THEN [raised |-> TRUE, file_type |-> detected.file_type,
          detected_schema |-> detected_schema, canonical_df |-> canonical_df,
          metadata |-> NoFileMetadata]
    ELSE [raised |-> FALSE, file_type |-> detected.file_type,
          detected_schema |-> detected_schema, canonical_df |-> canonical_df,
          metadata |-> FileMetadata(detected.file_type, detected_schema, detected.confidence,
                                    df.rows,
                                    NotNaAny(canonical_df, "timestamp"),
                                    NotNaAny(canonical_df, "amount"),
                                    NotNaAny(canonical_df, "user_id"),
                                    risk_score)]

\* line 150: risk_score
CanonicalOfFrame(df, detected, detected_schema, canonical_df) ==
    CanonicalOfRisk(df, detected, detected_schema, canonical_df,
                    _calculate_risk_score(canonical_df, detected.file_type))

\* lines 144-147: the unmapped columns
CanonicalOfMapped(df, detected, mapped) ==
    CanonicalOfFrame(df, detected, mapped.detected_schema,
                     RawLoop(df.cols, df.rows, mapped.detected_schema, mapped.canonical_df))

\* lines 123-142: the mappings of the detected type and the canonical fields
CanonicalOfType(df, detected) ==
    CanonicalOfMapped(df, detected,
        MapLoop(field_mappings[detected.file_type], df,
                [canonical_df |-> Frame(0, <<>>), detected_schema |-> <<>>]))

canonicalize_schema(df) == CanonicalOfType(df, detect_file_type(df))

(***************************************************************************)
(* The datasets, metadata mappings, rules and signal tables the            *)
(* operations are called with.                                             *)
(***************************************************************************)
\* the day the calls are made, and the readings datetime.now() can give
Today == 1000
Clock == {Today, Today + 2}

Absent == [dtype |-> "absent", col |-> NoCol]

\* amount columns of a dataset of n rows with k cells filled
AmountNull(n) == [dtype |-> "number", col |-> [nulls |-> n, vals |-> <<>>]]
AmountText(n) == [dtype |-> "object", col |-> [nulls |-> 0, vals |-> <<>>]]
\* k times the amount 1.0
AmountSame(n, k) ==
    [dtype |-> "number", col |-> [nulls |-> n - k, vals |-> << [v |-> 2, c |-> k] >>]]
\* k - 1 times 0.0 and once 1.5: the coefficient of variation is sqrt(k)
AmountOutlier(n, k) ==
    [dtype |-> "number",
     col |-> [nulls |-> n - k, vals |-> << [v |-> 0, c |-> k - 1], [v |-> 3, c |-> 1] >>]]
\* 1.5 and 2.5 in turn
AmountMixed(n, k) ==
    [dtype |-> "number",
     col |-> [nulls |-> n - k,
              vals |-> << [v |-> 3, c |-> k - (k \div 2)], [v |-> 5, c |-> k \div 2] >>]]

\* timestamp columns: k parsed values, f of the k - 1 differences under a
\* minute, on the given days
TimestampNull(n) ==
    [dtype |-> "object", col |-> [nulls |-> n, bad |-> FALSE, times |-> <<>>, fast |-> 0]]
TimestampBad(n) ==
    [dtype |-> "object", col |-> [nulls |-> 0, bad |-> TRUE, times |-> <<>>, fast |-> 0]]
Timestamps(n, times, f) ==
    [dtype |-> "datetime",
     col |-> [nulls |-> n - RunCount(times), bad |-> FALSE, times |-> times, fast |-> f]]

\* user_id columns
UsersNull(n) == [dtype |-> "object", col |-> [nulls |-> n, users |-> <<>>]]
Users(n, users) ==
    [dtype |-> "object",
     col |-> [nulls |-> n - SeqSum([i \in DOMAIN users |-> users[i].c * users[i].k]),
              users |-> users]]

\* a dataset of n rows with these three columns (or Absent) and the other
\* columns named in others (column name -> dtype), other_nulls of whose
\* cells are null
DataFrame(n, amount, timestamp, user_id, others, other_nulls) ==
    LET special == [amount |-> amount, timestamp |-> timestamp, user_id |-> user_id]
        present == {c \in DOMAIN special : special[c].dtype # "absent"}
    IN  [rows |-> n,
         dtypes |-> [c \in present \cup DOMAIN others |->
                        IF c \in present THEN special[c].dtype ELSE others[c]],
         amount |-> amount.col,
         timestamp |-> timestamp.col,
         user_id |-> user_id.col,
         other_nulls |-> other_nulls]

NoOthers == [c \in {} |-> ""]

\* other columns: none, or a merchant and a numeric quantity
Commerce == [merchant |-> "object", quantity |-> "number"]

\* timestamps of a day ago but for one of tomorrow, a second apart
Recent(n) ==
    Timestamps(n, << [t |-> Today - 1, c |-> n - 1], [t |-> Today + 1, c |-> 1] >>, n - 1)
OneUser(n) == Users(n, << [c |-> n, k |-> 1] >>)
TwoUsers(n) == Users(n, << [c |-> n - 1, k |-> 1], [c |-> 1, k |-> 1] >>)

\* pd.DataFrame([]) and an empty frame that keeps its columns
EmptyDatasets ==
    {DataFrame(0, Absent, Absent, Absent, NoOthers, 0),
     DataFrame(0, AmountNull(0), TimestampNull(0), UsersNull(0), NoOthers, 0)}

\* 60 rows, every choice of columns but none at all
WideDatasets ==
    {d \in {DataFrame(60, a, t, u, o, 0) :
               a \in {Absent, AmountSame(60, 60), AmountOutlier(60, 10)},
               t \in {Absent, Recent(60)},
               u \in {Absent, TwoUsers(60)},
               o \in {NoOthers, Commerce}} :
        Columns(d) # {}}

\* few rows and many; text where amounts should be, dates that do not
\* parse, columns without a value.  The amount column holds at most 60
\* values, which keeps the sums of CvAbove3 small.
OddDatasets ==
    {DataFrame(5, AmountSame(5, 5), Recent(5), OneUser(5), NoOthers, 0),
     DataFrame(5, AmountSame(5, 4), Absent, TwoUsers(5), Commerce, 5),
     DataFrame(5, Absent, Absent, Absent, [note |-> "object"], 0),
     DataFrame(60, AmountText(60), TimestampBad(60), UsersNull(60), Commerce, 0),
     DataFrame(60, AmountText(60), Absent, TwoUsers(60), NoOthers, 0),
     DataFrame(60, AmountNull(60), TimestampNull(60), OneUser(60), Commerce, 120),
     DataFrame(10001, AmountSame(10001, 5), Recent(10001), TwoUsers(10001), NoOthers, 0),
     DataFrame(10001, AmountText(10001), Absent, Absent, Commerce, 0),
     DataFrame(5001, Absent, Absent, Absent, [note |-> "object"], 5001),
     \* six timestamps, four of the five differences under a minute
     DataFrame(6, Absent, Timestamps(6, << [t |-> Today - 1, c |-> 6] >>, 4), Absent, NoOthers, 0),
     \* five amounts and five timestamps, and four of each in five rows
     DataFrame(5, AmountMixed(5, 5), Timestamps(5, << [t |-> Today - 1, c |-> 5] >>, 0), Absent,
               NoOthers, 0),
     DataFrame(5, AmountMixed(5, 4), Timestamps(5, << [t |-> Today - 1, c |-> 4] >>, 0), Absent,
               NoOthers, 0),
     \* twenty rows of one amount and one merchant within one hour, seconds
     \* or minutes apart
     DataFrame(20, AmountSame(20, 20), Timestamps(20, << [t |-> Today - 1, c |-> 20] >>, 19),
               Absent, [merchant |-> "object"], 0),
     DataFrame(20, AmountSame(20, 20), Timestamps(20, << [t |-> Today - 1, c |-> 20] >>, 0),
               Absent, [merchant |-> "object"], 0),
     \* a large file, two thirds of it empty, with clustered timestamps of
     \* more than a year ago and one of tomorrow
     DataFrame(10001, AmountNull(10001),
               Timestamps(10001, << [t |-> Today - 400, c |-> 10000], [t |-> Today + 1, c |-> 1] >>,
                          9999),
               UsersNull(10001), NoOthers, 0),
     \* an inventory count: quantity and item_name only
     DataFrame(12, Absent, Absent, Absent, [quantity |-> "number", item_name |-> "object"], 0)}

Datasets == EmptyDatasets \cup WideDatasets \cup OddDatasets

\* the mappings a caller passes: no key, a file type, and a mapping that
\* still holds the risk_score of an earlier analysis
Metadata ==
    {[k \in {} |-> ""],
     [file_type |-> "financial"],
     [file_type |-> "inventory", risk_score |-> Frac(19, 20)]}

\* the rules register_rule is called with
RuleChoices ==
    {RuleMetadata("custom_rule", "network", "cheap", <<>>, 7, Zero),
     RuleMetadata("custom_rule", "network", "expensive", <<>>, 9, Zero),
     RuleMetadata("custom_rule", "network", "medium", <<"const_true", "raises">>, 6, Zero),
     RuleMetadata("custom_rule", "network", "cheap", <<>>, 9, Tenths(5)),
     RuleMetadata("second_rule", "network", "expensive", <<"const_true">>, 5, Zero),
     RuleMetadata("second_rule", "network", "expensive", <<>>, 7, Zero),
     RuleMetadata("anomaly_detection", "ml_anomaly", "medium",
                  <<"sufficient_data_for_ml", "const_false">>, 8, Zero),
     RuleMetadata("high_value_transactions", "financial", "expensive",
                  <<"has_amount_field">>, 8, Tenths(3))}

\* the callables a replaced signal table holds
StubOutcomes ==
    {None, Raised, FastSignal("forced", Tenths(9), One), FastSignal("unweighted", One, Zero),
     FastSignal("edge", Tenths(7), One)}

StubName(i) == <<"stub_1", "stub_2", "stub_3", "stub_4">>[i]

SignalTables ==
    {DefaultSignals}
    \cup UNION {{[i \in 1..len |-> StubSignal(StubName(i), outs[i])] :
                    outs \in [1..len -> StubOutcomes]} : len \in 1..MaxStubs}

\* the frames handed to the canonicalizer: what the cells of a frame's
\* columns are like, given its number of rows
CellKinds(rows) ==
    {[dtype |-> "number", nulls |-> 0, neg |-> 0, extreme |-> FALSE, bad |-> FALSE],
     [dtype |-> "object", nulls |-> rows, neg |-> 0, extreme |-> FALSE, bad |-> FALSE],
     [dtype |-> "object", nulls |-> IF rows > 0 THEN 1 ELSE 0, neg |-> 0, extreme |-> FALSE,
      bad |-> TRUE],
     [dtype |-> "number", nulls |-> IF rows > 0 THEN 1 ELSE 0,
      neg |-> IF rows > 1 THEN 2 ELSE 0, extreme |-> rows > 1, bad |-> FALSE]}

ColumnOfKind(name, kind) ==
    Column(name, kind.dtype, kind.nulls, kind.neg, kind.extreme, kind.bad)

FrameOfKind(rows, names, kind) ==
    Frame(rows, [i \in DOMAIN names |-> ColumnOfKind(names[i], kind)])

SchemaColumns ==
    {"transaction_id", "amount", "timestamp", "user_id", "quantity", "item_code", "log_id",
     "note", "checkout", " Amount "}

MaxColumns == 2
SchemaRows == {0, 4}

ColumnLists ==
    {names \in UNION {[1..len -> SchemaColumns] : len \in 0..MaxColumns} :
        \A i, j \in DOMAIN names : i # j => names[i] # names[j]}

\* a frame without columns has no rows
SmallFrames ==
    UNION {{FrameOfKind(IF names = <<>> THEN 0 ELSE rows, names, kind) :
                names \in ColumnLists, kind \in CellKinds(rows)} : rows \in SchemaRows}

\* frames of one file type with many of its indicators, and frames whose
\* columns differ from the vocabulary in case or blanks
WideFrames ==
    {FrameOfKind(4, names, kind) :
        names \in {<<"item_code", "movement_id", "quantity", "item_name", "movement_type",
                     "checkout">>,
                   <<"transaction_id", "payment_method", "amount", "merchant", "currency">>,
                   <<"log_id", "event_id", "user_agent", "source_ip", "action", "username",
                     "timestamp">>,
                   <<"login_time", "user", "note">>,
                   <<"quantity", "item_name">>,
                   <<"Quantity", "item_code", "total_value", "value", "store", "location">>,
                   <<"id", "transaction_id", "time", "date", "country", "card_type", "ip">>},
        kind \in CellKinds(4)}

SchemaFrames == SmallFrames \cup WideFrames

\* the concurrent callers, and what each may call create_execution_plan
\* with: its dataset, its mapping, and the reading of datetime.now() its
\* call takes
MaxCallers == 2
Callers == 1..MaxCallers
ConcurrentCalls ==
    {[df |-> DataFrame(60, AmountOutlier(60, 10), Recent(60), TwoUsers(60), Commerce, 0),
      file_metadata |-> [k \in {} |-> ""], now |-> Today],
     [df |-> DataFrame(5, Absent, Absent, Absent, [note |-> "object"], 0),
      file_metadata |-> [file_type |-> "financial"], now |-> Today],
     [df |-> DataFrame(60, AmountSame(60, 60), Recent(60), TwoUsers(60), Commerce, 0),
      file_metadata |-> [file_type |-> "inventory", risk_score |-> Frac(19, 20)],
      now |-> Today + 2],
     [df |-> DataFrame(60, AmountText(60), TimestampBad(60), UsersNull(60), Commerce, 0),
      file_metadata |-> [k \in {} |-> ""], now |-> Today + 2]}

\* the risks should_terminate_early is asked about
CurrentRisks == {Tenths(7), Tenths(8), Tenths(9)}

\* the lists get_aggregate_risk_score is called with
SignalChoices ==
    {FastSignal("s", Zero, Tenths(8)), FastSignal("s", Tenths(3), Tenths(6)),
     FastSignal("s", One, Tenths(7)), FastSignal("s", One, Zero),
     FastSignal("s", Tenths(9), One)}
SignalLists == UNION {[1..len -> SignalChoices] : len \in 0..MaxSignals}

(***************************************************************************)
(* The state: the registry, the engine's table, and the caller: idle, or    *)
(* back from the operation op with what it gave and what was returned.     *)
(***************************************************************************)
VARIABLES
    rules,          \* rule_registry.rules
    signals,        \* fast_signal_engine.signals
    op,             \* "idle", or the operation the caller is back from
    df,             \* its dataset
    meta0,          \* the caller's metadata mapping before the call
    file_metadata,  \* the same mapping after it
    now,            \* the reading of datetime.now() the call took
    ret,            \* what the call returned
    calls           \* the concurrent callers of create_execution_plan

vars == <<rules, signals, op, df, meta0, file_metadata, now, ret, calls>>

NoDataset == DataFrame(0, Absent, Absent, Absent, NoOthers, 0)
NoMetadata == [k \in {} |-> ""]
NoFast == [results |-> <<>>, calls |-> <<>>, failed |-> <<>>, raised |-> FALSE]
NoPlan == RuleExecutionPlan(<<>>, 0, Zero, Zero, <<>>)
NoSchema ==
    [raised |-> FALSE, file_type |-> "", confidence |-> Zero, detected_schema |-> <<>>,
     canonical_df |-> Frame(0, <<>>), metadata |-> NoFileMetadata]
\* a caller outside create_execution_plan
NoCaller ==
    [pc |-> "idle", df |-> NoDataset, meta0 |-> NoMetadata, file_metadata |-> NoMetadata,
     now |-> Today, fast |-> NoFast, computed_risk |-> Zero, aggregate_risk |-> Zero,
     applicable_rules |-> [raised |-> FALSE, value |-> <<>>], filtered_rules |-> <<>>,
     execution_order |-> <<>>, plan |-> NoPlan, overlapped |-> FALSE]
NoStats ==
    [total_rules |-> 0, estimated_total_time_ms |-> 0, rule_breakdown |-> <<>>,
     early_termination_threshold |-> Zero]
NoRet ==
    [raised |-> FALSE, fast |-> NoFast, given |-> <<>>, computed_risk |-> Zero,
     aggregate_risk |-> Zero, applicable_rules |-> <<>>, plan |-> NoPlan,
     current_risk_score |-> Zero, terminate |-> FALSE, schema |-> NoSchema,
     metadata |-> NoRule, stats |-> NoStats, rule_name |-> "", routine |-> ""]

\* rule_registry = RuleRegistry(); fast_signal_engine = FastSignalEngine()
Init ==
    /\ rules = DefaultRules
    /\ signals = DefaultSignals
    /\ op = "idle"
    /\ df = NoDataset
    /\ meta0 = NoMetadata
    /\ file_metadata = NoMetadata
    /\ now = Today
    /\ ret = NoRet
    /\ calls = [caller \in Callers |-> NoCaller]

NoCall ==
    /\ df' = NoDataset
    /\ meta0' = NoMetadata
    /\ file_metadata' = NoMetadata
    /\ now' = Today
    /\ ret' = NoRet

RegisterRule ==
    /\ op = "idle"
    /\ \E metadata \in RuleChoices :
        /\ metadata.name \in RuleNames(rules) \/ Len(rules) < MaxRules
        /\ rules' = register_rule(rules, metadata)
        /\ ret' = [NoRet EXCEPT !.metadata = metadata]
    /\ op' = "register_rule"
    /\ df' = NoDataset
    /\ meta0' = NoMetadata
    /\ file_metadata' = NoMetadata
    /\ now' = Today
    /\ UNCHANGED signals
    /\ UNCHANGED calls

\* fast_signal_engine.signals = table
SetSignals ==
    /\ op = "idle"
    /\ \E table \in SignalTables : signals' = table
    /\ op' = "set_signals"
    /\ NoCall
    /\ UNCHANGED rules
    /\ UNCHANGED calls

GetApplicableRules ==
    /\ op = "idle"
    /\ \E d \in Datasets, m \in Metadata :
        \E r \in {get_applicable_rules(rules, d, m)} :
            /\ df' = d
            /\ meta0' = m
            /\ file_metadata' = m
            /\ ret' = [NoRet EXCEPT !.raised = r.raised, !.applicable_rules = r.value]
    /\ op' = "get_applicable_rules"
    /\ now' = Today
    /\ UNCHANGED <<rules, signals>>
    /\ UNCHANGED calls

CalculateAllSignals ==
    /\ op = "idle"
    /\ \E d \in Datasets, m \in Metadata, t \in Clock :
        \E r \in {calculate_all_signals(signals, d, m, t)} :
            /\ df' = d
            /\ meta0' = m
            /\ file_metadata' = m
            /\ now' = t
            /\ ret' = [NoRet EXCEPT !.raised = r.raised, !.fast = r]
    /\ op' = "calculate_all_signals"
    /\ UNCHANGED <<rules, signals>>
    /\ UNCHANGED calls

GetAggregateRiskScore ==
    /\ op = "idle"
    /\ \E sigs \in SignalLists :
        ret' = [NoRet EXCEPT !.given = sigs,
                             !.computed_risk = get_aggregate_risk_score(sigs)]
    /\ op' = "get_aggregate_risk_score"
    /\ df' = NoDataset
    /\ meta0' = NoMetadata
    /\ file_metadata' = NoMetadata
    /\ now' = Today
    /\ UNCHANGED <<rules, signals>>
    /\ UNCHANGED calls

CreateExecutionPlan ==
    /\ op = "idle"
    /\ \E d \in Datasets, m \in Metadata, t \in Clock :
        \E r \in {create_execution_plan(rules, signals, d, m, t)} :
            /\ df' = d
            /\ meta0' = m
            /\ file_metadata' = r.file_metadata
            /\ now' = t
            /\ ret' = [NoRet EXCEPT !.raised = r.raised, !.fast = r.fast,
                                    !.given = r.fast.results,
                                    !.computed_risk = r.computed_risk,
                                    !.aggregate_risk = r.aggregate_risk,
                                    !.applicable_rules = r.applicable_rules,
                                    !.plan = r.plan]
    /\ op' = "create_execution_plan"
    /\ UNCHANGED <<rules, signals>>
    /\ UNCHANGED calls

\* the caller holds a plan and asks, with the risk its rules have found so
\* far or with the plan's own aggregate risk, whether to stop
ShouldTerminateEarly ==
    /\ op = "create_execution_plan"
    /\ \E current_risk_score \in CurrentRisks \cup {ret.aggregate_risk} :
        ret' = [ret EXCEPT !.current_risk_score = current_risk_score,
                           !.terminate = should_terminate_early(current_risk_score,
                                            ret.plan.early_termination_threshold)]
    /\ op' = "should_terminate_early"
    /\ UNCHANGED <<rules, signals, df, meta0, file_metadata, now>>
    /\ UNCHANGED calls

DetectFileType ==
    /\ op = "idle"
    /\ \E d \in SchemaFrames :
        \E r \in {detect_file_type(d)} :
            /\ df' = d
            /\ ret' = [NoRet EXCEPT !.schema.file_type = r.file_type,
                                    !.schema.confidence = r.confidence]
    /\ op' = "detect_file_type"
    /\ meta0' = NoMetadata
    /\ file_metadata' = NoMetadata
    /\ now' = Today
    /\ UNCHANGED <<rules, signals>>
    /\ UNCHANGED calls

CanonicalizeSchema ==
    /\ op = "idle"
    /\ \E d \in SchemaFrames :
        \E r \in {canonicalize_schema(d)} :
            /\ df' = d
            /\ ret' = [NoRet EXCEPT !.raised = r.raised,
                                    !.schema = [raised |-> r.raised,
                                                file_type |-> r.file_type,
                                                confidence |-> r.metadata.confidence,
                                                detected_schema |-> r.detected_schema,
                                                canonical_df |-> r.canonical_df,
                                                metadata |-> r.metadata]]
    /\ op' = "canonicalize_schema"
    /\ meta0' = NoMetadata
    /\ file_metadata' = NoMetadata
    /\ now' = Today
    /\ UNCHANGED <<rules, signals>>
    /\ UNCHANGED calls

\* the caller holds a plan and asks for its statistics
GetRuleExecutionStats ==
    /\ op = "create_execution_plan"
    /\ ~ret.raised
    /\ ret' = [ret EXCEPT !.stats = get_rule_execution_stats(rules, ret.plan)]
    /\ op' = "get_rule_execution_stats"
    /\ UNCHANGED <<rules, signals, df, meta0, file_metadata, now>>
    /\ UNCHANGED calls

\* the executor applies one of the rules the plan holds
ApplyRule ==
    /\ op = "create_execution_plan"
    /\ ~ret.raised
    /\ \E i \in DOMAIN ret.plan.rules_to_execute :
        ret' = [ret EXCEPT !.rule_name = ret.plan.rules_to_execute[i],
                           !.routine = _apply_rule(ret.plan.rules_to_execute[i])]
    /\ op' = "_apply_rule"
    /\ UNCHANGED <<rules, signals, df, meta0, file_metadata, now>>
    /\ UNCHANGED calls

\* the caller is done with what the operation returned
Return ==
    /\ op # "idle"
    /\ op' = "idle"
    /\ NoCall
    /\ UNCHANGED <<rules, signals>>
    /\ UNCHANGED calls

\* the registry and the router, with the engine as it is built
Next ==
    \/ RegisterRule
    \/ GetApplicableRules
    \/ CreateExecutionPlan
    \/ ShouldTerminateEarly
    \/ GetRuleExecutionStats
    \/ Return
Spec == Init /\ [][Next]_vars

\* the engine and the router, with the registry as it is built
NextSignals ==
    \/ SetSignals
    \/ CalculateAllSignals
    \/ GetAggregateRiskScore
    \/ CreateExecutionPlan
    \/ Return
SpecSignals == Init /\ [][NextSignals]_vars

\* The callers that run create_execution_plan at the same time.  A step of
\* a caller is one statement of lines 42-75; the registry and the signal
\* table are read where the statement reads them, the mapping is the object
\* the caller passed.

\* every caller passing one and the same mapping object
SharedMapping(caller) == 1

\* the mapping object a caller passes: its own
MappingOf(caller) == caller

Running(caller) == calls[caller].pc \notin {"idle", "done"}

\* rule_router.create_execution_plan(df, file_metadata) is entered
Call(caller) ==
    /\ calls[caller].pc = "idle"
    /\ \E c \in ConcurrentCalls :
        calls' = [k \in Callers |->
                    IF k = caller
                    THEN [NoCaller EXCEPT !.pc = "line 42", !.df = c.df, !.now = c.now,
                                          !.meta0 = c.file_metadata,
                                          !.file_metadata =
                                              IF MappingOf(k) = k THEN c.file_metadata
                                              ELSE calls[k].file_metadata,
                                          !.overlapped = \E o \in Callers \ {caller} : Running(o)]
                    ELSE [calls[k] EXCEPT !.file_metadata =
                                              IF MappingOf(caller) = k THEN c.file_metadata ELSE @,
                                          !.overlapped = @ \/ Running(k)]]
    /\ UNCHANGED <<rules, signals, op, df, meta0, file_metadata, now, ret>>

\* line 42
CallSignals(caller) ==
    /\ calls[caller].pc = "line 42"
    /\ calls' = [calls EXCEPT ![caller].pc = "line 43",
                              ![caller].fast =
                                  calculate_all_signals(signals, calls[caller].df,
                                      calls[MappingOf(caller)].file_metadata, calls[caller].now)]
    /\ UNCHANGED <<rules, signals, op, df, meta0, file_metadata, now, ret>>

\* lines 43-50: the aggregate, the floor, and the write to the mapping
CallRisk(caller) ==
    /\ calls[caller].pc = "line 43"
    /\ \E computed_risk \in {get_aggregate_risk_score(calls[caller].fast.results)} :
        calls' = [k \in Callers |->
                    [[calls[k] EXCEPT !.file_metadata =
                            IF MappingOf(caller) = k
                            THEN UpdateRiskScore(@, FloorRisk(computed_risk)) ELSE @]
                     EXCEPT !.pc = IF k = caller THEN "line 53" ELSE @,
                            !.computed_risk = IF k = caller THEN computed_risk ELSE @,
                            !.aggregate_risk = IF k = caller THEN FloorRisk(computed_risk) ELSE @]]
    /\ UNCHANGED <<rules, signals, op, df, meta0, file_metadata, now, ret>>

\* line 53
CallApplicable(caller) ==
    /\ calls[caller].pc = "line 53"
    /\ calls' = [calls EXCEPT ![caller].pc = "line 56",
                              ![caller].applicable_rules =
                                  get_applicable_rules(rules, calls[caller].df,
                                      calls[MappingOf(caller)].file_metadata)]
    /\ UNCHANGED <<rules, signals, op, df, meta0, file_metadata, now, ret>>

\* lines 56-58
CallFilter(caller) ==
    /\ calls[caller].pc = "line 56"
    /\ calls' = [calls EXCEPT ![caller].pc = "line 61",
                              ![caller].filtered_rules =
                                  _filter_rules_by_risk_and_cost(rules,
                                      calls[caller].applicable_rules.value,
                                      calls[caller].aggregate_risk,
                                      calls[MappingOf(caller)].file_metadata)]
    /\ UNCHANGED <<rules, signals, op, df, meta0, file_metadata, now, ret>>

\* line 61
CallOrder(caller) ==
    /\ calls[caller].pc = "line 61"
    /\ calls' = [calls EXCEPT ![caller].pc = "line 64",
                              ![caller].execution_order =
                                  _order_rules_for_execution(rules, calls[caller].filtered_rules)]
    /\ UNCHANGED <<rules, signals, op, df, meta0, file_metadata, now, ret>>

\* lines 64-75: the plan is returned
CallPlan(caller) ==
    /\ calls[caller].pc = "line 64"
    /\ calls' = [calls EXCEPT ![caller].pc = "done",
                              ![caller].plan =
                                  RuleExecutionPlan(calls[caller].execution_order,
                                      _calculate_estimated_cost(rules, calls[caller].execution_order),
                                      Tenths(3),
                                      EarlyTerminationThreshold(calls[caller].aggregate_risk),
                                      calls[caller].execution_order)]
    /\ UNCHANGED <<rules, signals, op, df, meta0, file_metadata, now, ret>>

\* the caller is done with its plan
CallReturn(caller) ==
    /\ calls[caller].pc = "done"
    /\ calls' = [calls EXCEPT ![caller] = NoCaller]
    /\ UNCHANGED <<rules, signals, op, df, meta0, file_metadata, now, ret>>

\* concurrent callers of the router, no register_rule running
NextConcurrent ==
    \/ \E caller \in Callers : Call(caller)
    \/ \E caller \in Callers : CallSignals(caller)
    \/ \E caller \in Callers : CallRisk(caller)
    \/ \E caller \in Callers : CallApplicable(caller)
    \/ \E caller \in Callers : CallFilter(caller)
    \/ \E caller \in Callers : CallOrder(caller)
    \/ \E caller \in Callers : CallPlan(caller)
    \/ \E caller \in Callers : CallReturn(caller)
SpecConcurrent == Init /\ [][NextConcurrent]_vars

\* a file on its way from the canonicalizer to the router and the executor
NextScenario ==
    \/ DetectFileType
    \/ CreateExecutionPlan
    \/ ApplyRule
    \/ Return
SpecScenario == Init /\ [][NextScenario]_vars

\* the canonicalizer
NextSchema ==
    \/ DetectFileType
    \/ CanonicalizeSchema
    \/ Return
SpecSchema == Init /\ [][NextSchema]_vars

(***************************************************************************)
(* Properties of the router, the registry and the engine.                  *)
(***************************************************************************)

\* C1: every adjacent pair of rules in the rules_to_execute returned by
\* create_execution_plan is ordered by cost tier (cheap < medium <
\* expensive) and, within one tier, by priority, higher first; for any
\* registry contents, dataset and metadata.
C1_PlanOrderedByTierThenPriority ==
    op = "create_execution_plan" =>
        LET order == ret.plan.rules_to_execute
            tier(n) == CASE get_rule_metadata(rules, n).cost = "cheap" -> 1
                         [] get_rule_metadata(rules, n).cost = "medium" -> 2
                         [] get_rule_metadata(rules, n).cost = "expensive" -> 3
            priority(n) == get_rule_metadata(rules, n).priority
        IN  \A i \in 1..(Len(order) - 1) :
                \/ tier(order[i]) < tier(order[i + 1])
                \/ /\ tier(order[i]) = tier(order[i + 1])
                   /\ priority(order[i]) >= priority(order[i + 1])

\* a plan with a registered rule in it, all three tiers, a tier with two
\* priorities, and a later tier holding a higher priority than an earlier
C1_Witness ==
    /\ op = "create_execution_plan"
    /\ LET order == ret.plan.rules_to_execute
           cost(n) == get_rule_metadata(rules, n).cost
           priority(n) == get_rule_metadata(rules, n).priority
       IN  /\ "custom_rule" \in Range(order)
           /\ {cost(n) : n \in Range(order)} = {"cheap", "medium", "expensive"}
           /\ \E i \in 1..(Len(order) - 1) :
                /\ cost(order[i]) = cost(order[i + 1])
                /\ priority(order[i]) > priority(order[i + 1])
           /\ \E i, j \in DOMAIN order :
                /\ i < j
                /\ cost(order[i]) = "cheap"
                /\ cost(order[j]) = "expensive"
                /\ priority(order[i]) < priority(order[j])

\* C2: get_applicable_rules returns exactly the registered names whose
\* predicates all evaluate to true on the dataset and the metadata it is
\* given (a rule without predicates always), and returns no name twice.
C2_ApplicableExactlyThePassingRules ==
    op \in {"get_applicable_rules", "create_execution_plan"} =>
        LET passes(r) == \A j \in DOMAIN r.predicates :
                             Condition(r.predicates[j], df, file_metadata) = "True"
            applicable == ret.applicable_rules
        IN  /\ Range(applicable) = {rules[i].name : i \in {k \in DOMAIN rules : passes(rules[k])}}
            /\ Cardinality(Range(applicable)) = Len(applicable)

\* the registry holds a rule without predicates, which is returned, next
\* to rules that pass and a rule one of whose predicates is false
C2_Witness ==
    /\ op = "get_applicable_rules"
    /\ \E i \in DOMAIN rules :
        /\ rules[i].predicates = <<>>
        /\ rules[i].name \in Range(ret.applicable_rules)
    /\ \E i \in DOMAIN rules :
        /\ Len(rules[i].predicates) >= 2
        /\ rules[i].name \in Range(ret.applicable_rules)
    /\ \E i \in DOMAIN rules : \E j, k \in DOMAIN rules[i].predicates :
        /\ Condition(rules[i].predicates[j], df, file_metadata) = "True"
        /\ Condition(rules[i].predicates[k], df, file_metadata) = "False"
        /\ rules[i].name \notin Range(ret.applicable_rules)

\* C3: a predicate that raises during get_applicable_rules counts as
\* false: its rule is left out, no exception reaches the caller, and the
\* result is the one of the registry in which each raising predicate
\* returns false instead.
C3_RaisingPredicateCountsAsFalse ==
    op \in {"get_applicable_rules", "create_execution_plan"} =>
        LET raising(p) == Condition(p, df, file_metadata) = "raise"
            quiet == [i \in DOMAIN rules |->
                        [rules[i] EXCEPT !.predicates =
                            [j \in DOMAIN rules[i].predicates |->
                                IF raising(rules[i].predicates[j]) THEN "const_false"
                                ELSE rules[i].predicates[j]]]]
        IN  /\ ~ret.raised
            /\ \A i \in DOMAIN rules :
                (\E j \in DOMAIN rules[i].predicates : raising(rules[i].predicates[j]))
                    => rules[i].name \notin Range(ret.applicable_rules)
            /\ ret.applicable_rules = get_applicable_rules(quiet, df, file_metadata).value

\* a registered rule has a raising predicate next to a true one, the
\* built-in multiple_users raises on a dataset without user_id, and other
\* rules are returned
C3_Witness ==
    /\ op = "get_applicable_rules"
    /\ ~ret.raised
    /\ ret.applicable_rules # <<>>
    /\ \E i \in DOMAIN rules : \E j, k \in DOMAIN rules[i].predicates :
        /\ Condition(rules[i].predicates[j], df, file_metadata) = "True"
        /\ Condition(rules[i].predicates[k], df, file_metadata) = "raise"
    /\ Condition("multiple_users", df, file_metadata) = "raise"

\* C4: in create_execution_plan an applicable rule is in rules_to_execute
\* if and only if (1) it is not an expensive rule at an aggregate risk
\* under 0.3 for a file whose file_type is not 'financial' (a missing
\* file_type is not financial), and (2) its risk_threshold does not exceed
\* the aggregate risk.
C4_FilterByRiskAndCost ==
    op = "create_execution_plan" =>
        LET risk == ret.aggregate_risk
            financial == "file_type" \in DOMAIN meta0 /\ meta0["file_type"] = "financial"
            kept(r) == /\ ~(r.cost = "expensive" /\ FLt(risk, Frac(3, 10)) /\ ~financial)
                       /\ ~FGt(r.risk_threshold, risk)
        IN  /\ Range(ret.plan.rules_to_execute) \subseteq Range(ret.applicable_rules)
            /\ \A n \in Range(ret.applicable_rules) :
                n \in Range(ret.plan.rules_to_execute) <=> kept(get_rule_metadata(rules, n))

\* one plan leaves out an expensive rule on cost alone and a cheap rule on
\* its threshold alone, and keeps another applicable rule
C4_Witness ==
    /\ op = "create_execution_plan"
    /\ ret.plan.rules_to_execute # <<>>
    /\ \E a, b \in Range(ret.applicable_rules) :
        LET ra == get_rule_metadata(rules, a)
            rb == get_rule_metadata(rules, b)
        IN  /\ ra.cost = "expensive"
            /\ FLe(ra.risk_threshold, ret.aggregate_risk)
            /\ a \notin Range(ret.plan.rules_to_execute)
            /\ rb.cost = "cheap"
            /\ FGt(rb.risk_threshold, ret.aggregate_risk)
            /\ b \notin Range(ret.plan.rules_to_execute)

C6_ScenarioD_AsStated ==
    (/\ op = "create_execution_plan"
     /\ rules = DefaultRules
     /\ ret.aggregate_risk = Frac(9, 10)
     /\ df.rows = 60
     /\ NumericColumns(df) >= 2)
        => /\ ret.plan.early_termination_threshold = Frac(9, 10)
           /\ "anomaly_detection" \in Range(ret.plan.rules_to_execute)

\* C6: when create_execution_plan computes an aggregate risk of 0.9 for a
\* dataset of 60 rows with at least two numeric columns, the plan has
\* early_termination_threshold 0.9 and anomaly_detection is not in
\* rules_to_execute: its predicate not_high_risk_already reads the 0.9
\* just written to the metadata, so the rule is not applicable.
C6_ScenarioD_AnomalyDetectionSkipped ==
    (/\ op = "create_execution_plan"
     /\ rules = DefaultRules
     /\ ret.aggregate_risk = Frac(9, 10)
     /\ df.rows = 60
     /\ NumericColumns(df) >= 2)
        => /\ ret.plan.early_termination_threshold = Frac(9, 10)
           /\ "anomaly_detection" \notin Range(ret.applicable_rules)
           /\ "anomaly_detection" \notin Range(ret.plan.rules_to_execute)

\* the scenario: risk 0.9 on 60 rows with two numeric columns, for a
\* caller whose mapping held no risk_score, and other rules scheduled
C6_Witness ==
    /\ op = "create_execution_plan"
    /\ rules = DefaultRules
    /\ ret.aggregate_risk = Frac(9, 10)
    /\ df.rows = 60
    /\ NumericColumns(df) >= 2
    /\ "risk_score" \notin DOMAIN meta0
    /\ ret.plan.early_termination_threshold = Frac(9, 10)
    /\ ret.plan.rules_to_execute # <<>>

\* C7 as stated: with the built-in registry create_execution_plan
\* schedules at least one rule for every dataset and any metadata.
C7_SomeRuleScheduled ==
    (op = "create_execution_plan" /\ rules = DefaultRules)
        => ret.plan.rules_to_execute # <<>>

C9_ConfidenceWeightedMean ==
    op = "get_aggregate_risk_score" =>
        LET sigs == ret.given
            result == ret.computed_risk
            \* risks and confidences in tenths
            R(i) == sigs[i].risk_score.n * (10 \div sigs[i].risk_score.d)
            W(i) == sigs[i].confidence.n * (10 \div sigs[i].confidence.d)
            weights == SeqSum([i \in DOMAIN sigs |-> W(i)])
            weighted == SeqSum([i \in DOMAIN sigs |-> R(i) * W(i)])
        IN  /\ (sigs = <<>> \/ weights = 0) => result = Zero
            /\ weights # 0 => result.n * 10 * weights = result.d * weighted
            /\ \A p \in Permutations(DOMAIN sigs) :
                get_aggregate_risk_score([i \in DOMAIN sigs |-> sigs[p[i]]]) = result

\* three signals of different risks and confidences, one of confidence
\* zero, whose mean differs from their unweighted mean
C9_Witness ==
    /\ op = "get_aggregate_risk_score"
    /\ Len(ret.given) = 3
    /\ Cardinality(Range(ret.given)) = 3
    /\ \E i \in DOMAIN ret.given : ret.given[i].confidence = Zero
    /\ FGt(ret.computed_risk, Zero)
    /\ \A i \in DOMAIN ret.given : ret.computed_risk # ret.given[i].risk_score

\* C10: calculate_all_signals calls every function of the table exactly
\* once, in the table's order; a function that raises is left out and the
\* later ones are still called, so the result is the list of the non-null
\* results of the functions that did not raise, and no exception reaches
\* the caller.
C10_EverySignalEvaluated ==
    op \in {"calculate_all_signals", "create_execution_plan"} =>
        LET outcomes == [i \in DOMAIN signals |-> CallSignal(signals[i], df, meta0, now)]
        IN  /\ ret.fast.calls = [i \in DOMAIN signals |-> signals[i].name]
            /\ ret.fast.results = SelectSeq(outcomes, LAMBDA o : o.kind = "signal")
            /\ ret.fast.failed =
                    LET raising == SelectSeq([i \in DOMAIN signals |-> i],
                                             LAMBDA i : outcomes[i].kind = "raise")
                    IN  [k \in DOMAIN raising |-> signals[raising[k]].name]
            /\ ~ret.raised

\* a function of the built-in table raised, and a later one was called
\* and its result is in the list
C10_Witness ==
    /\ op = "calculate_all_signals"
    /\ signals = DefaultSignals
    /\ ~ret.raised
    /\ \E i, j \in DOMAIN signals :
        /\ i < j
        /\ CallSignal(signals[i], df, meta0, now).kind = "raise"
        /\ CallSignal(signals[j], df, meta0, now).kind = "signal"
        /\ signals[i].name \in Range(ret.fast.failed)
        /\ \E k \in DOMAIN ret.fast.results :
            ret.fast.results[k] = CallSignal(signals[j], df, meta0, now)

\* C11: the plan's early_termination_threshold is 0.9 when the floored
\* aggregate risk is strictly greater than 0.7 and 0.8 otherwise, at exactly
\* 0.7 too; it has no other value.
C11_EarlyTerminationThreshold ==
    op = "create_execution_plan" =>
        /\ ret.plan.early_termination_threshold \in {Frac(8, 10), Frac(9, 10)}
        /\ ret.plan.early_termination_threshold = Frac(9, 10)
                <=> ret.aggregate_risk.n * 10 > 7 * ret.aggregate_risk.d

\* a plan made at an aggregate risk of exactly 0.7
C11_Witness ==
    /\ op = "create_execution_plan"
    /\ ret.aggregate_risk = Frac(7, 10)
    /\ ret.plan.early_termination_threshold = Frac(8, 10)

\* C12: the plan's estimated_cost is 10 per cheap rule, 100 per medium
\* rule and 1000 per expensive rule of rules_to_execute, and 0 for an
\* empty plan.
C12_EstimatedCost ==
    op = "create_execution_plan" =>
        LET order == ret.plan.rules_to_execute
            count(c) == Cardinality({i \in DOMAIN order :
                                        get_rule_metadata(rules, order[i]).cost = c})
        IN  /\ ret.plan.estimated_cost =
                    10 * count("cheap") + 100 * count("medium") + 1000 * count("expensive")
            /\ order = <<>> => ret.plan.estimated_cost = 0

\* a plan with rules of all three tiers, two of them expensive
C12_Witness ==
    /\ op = "create_execution_plan"
    /\ LET order == ret.plan.rules_to_execute
           count(c) == Cardinality({i \in DOMAIN order :
                                       get_rule_metadata(rules, order[i]).cost = c})
       IN  /\ count("cheap") >= 2
           /\ count("medium") >= 1
           /\ count("expensive") >= 2
    /\ ret.plan.estimated_cost > 2000

\* C13: should_terminate_early(current_risk, threshold) is true exactly
\* when current_risk >= threshold, at equality too, and the call changes
\* nothing of the registry, the engine, the plan or the metadata.
C13_ShouldTerminateEarly ==
    /\ [](op = "should_terminate_early" =>
            (ret.terminate <=>
                ret.current_risk_score.n * ret.plan.early_termination_threshold.d
                    >= ret.plan.early_termination_threshold.n * ret.current_risk_score.d))
    /\ [][op' = "should_terminate_early" =>
            /\ rules' = rules
            /\ signals' = signals
            /\ file_metadata' = file_metadata
            /\ df' = df
            /\ ret'.plan = ret.plan
            /\ ret'.applicable_rules = ret.applicable_rules]_vars

\* asked at a risk equal to the plan's threshold, and the answer is yes
C13_Witness ==
    /\ op = "should_terminate_early"
    /\ ret.current_risk_score = ret.plan.early_termination_threshold
    /\ ret.plan.rules_to_execute # <<>>
    /\ ret.terminate


\* C14: detect_file_type returns the category with the highest score, on a
\* tie the first of inventory, financial, security_logs, hence inventory
\* with confidence 0.0 when nothing scores; the confidence is
\* min(score / 10, 1.0).
C14_DetectFileType ==
    op = "detect_file_type" =>
        LET scores == FileTypeScores(LoweredColumns(df))
            best == ret.schema.file_type
            at == CHOOSE i \in DOMAIN FileTypes : FileTypes[i] = best
        IN  /\ \E i \in DOMAIN FileTypes : FileTypes[i] = best
            /\ \A i \in DOMAIN FileTypes : scores[FileTypes[i]] <= scores[best]
            /\ \A i \in DOMAIN FileTypes : i < at => scores[FileTypes[i]] < scores[best]
            /\ (\A i \in DOMAIN FileTypes : scores[FileTypes[i]] = 0) =>
                    best = "inventory" /\ ret.schema.confidence = Zero
            /\ ret.schema.confidence
                    = IF scores[best] >= 10 THEN One ELSE Frac(scores[best], 10)

\* a tie between the category returned and a later one
C14_Witness ==
    /\ op = "detect_file_type"
    /\ LET scores == FileTypeScores(LoweredColumns(df))
       IN  /\ scores[ret.schema.file_type] > 0
           /\ \E t \in {"financial", "security_logs"} :
                /\ t # ret.schema.file_type
                /\ scores[t] = scores[ret.schema.file_type]

\* C15: canonicalize_schema binds each canonical field of the detected
\* category to the first of its aliases that is a column of the source; no
\* later alias is bound to the field; a field none of whose aliases is
\* present is a column empty in every row; detected_schema holds exactly the
\* bound pairs.
C15_FirstAliasBound ==
    op = "canonicalize_schema" =>
        LET mappings == field_mappings[ret.schema.file_type]
            schema == ret.schema.detected_schema
            present(m) == {i \in DOMAIN mappings[m].possible_fields :
                                mappings[m].possible_fields[i] \in ColumnNames(df)}
            first(m) == mappings[m].possible_fields[
                            CHOOSE i \in present(m) : \A j \in present(m) : i <= j]
            bound == {<<first(m), mappings[m].canonical_field>> :
                            m \in {k \in DOMAIN mappings : present(k) # {}}}
        IN  /\ \A m \in DOMAIN mappings :
                /\ mappings[m].canonical_field \in ColumnNames(ret.schema.canonical_df)
                /\ LET column == GetColumn(ret.schema.canonical_df, mappings[m].canonical_field)
                   IN  IF present(m) = {}
                       THEN column.origin = "" /\ column.nulls = df.rows
                       ELSE /\ column.origin = first(m)
                            /\ column = [GetColumn(df, first(m)) EXCEPT
                                            !.name = mappings[m].canonical_field]
                            /\ \A i \in present(m) :
                                mappings[m].possible_fields[i] # first(m) =>
                                    \A k \in DOMAIN schema :
                                        schema[k].field # mappings[m].possible_fields[i]
                                        \/ schema[k].canonical_field # mappings[m].canonical_field
            /\ {<<schema[k].field, schema[k].canonical_field>> : k \in DOMAIN schema} = bound
            /\ Len(schema) = Cardinality(bound)

\* a field with two of its aliases in the source, another with none
C15_Witness ==
    /\ op = "canonicalize_schema"
    /\ ~ret.schema.raised
    /\ LET mappings == field_mappings[ret.schema.file_type]
       IN  /\ \E m \in DOMAIN mappings :
                /\ mappings[m].possible_fields[1] \notin ColumnNames(df)
                /\ \E i, j \in DOMAIN mappings[m].possible_fields :
                    /\ i < j
                    /\ mappings[m].possible_fields[i] \in ColumnNames(df)
                    /\ mappings[m].possible_fields[j] \in ColumnNames(df)
           /\ \E m \in DOMAIN mappings :
                \A i \in DOMAIN mappings[m].possible_fields :
                    mappings[m].possible_fields[i] \notin ColumnNames(df)

C17_CompletesForEveryCategory ==
    op = "canonicalize_schema" =>
        /\ ~ret.schema.raised
        /\ LET out == ret.schema.canonical_df
               seen(name) == name \in ColumnNames(out) /\ GetColumn(out, name).nulls < out.rows
           IN  /\ ret.schema.metadata.has_timestamp = seen("timestamp")
               /\ ret.schema.metadata.has_amount = seen("amount")
               /\ ret.schema.metadata.has_user_id = seen("user_id")

\* C18: callers that run create_execution_plan at the same time on the
\* shared registry, engine and router, each with its own dataset and its own
\* mapping and with no register_rule running, end under every interleaving
\* of their steps with the plan and the metadata['risk_score'] that the call
\* gives when it runs alone.
C18_InterleavedAsSequential ==
    \A caller \in Callers :
        calls[caller].pc = "done" =>
            LET alone == create_execution_plan(rules, signals, calls[caller].df,
                                               calls[caller].meta0, calls[caller].now)
            IN  /\ calls[caller].plan = alone.plan
                /\ calls[caller].file_metadata = alone.file_metadata
                /\ Get(calls[caller].file_metadata, "risk_score", Zero) = alone.aggregate_risk

\* two callers done whose calls overlapped, with different plans
C18_Witness ==
    \E a, b \in Callers :
        /\ a # b
        /\ calls[a].pc = "done" /\ calls[b].pc = "done"
        /\ calls[a].overlapped /\ calls[b].overlapped
        /\ calls[a].plan.rules_to_execute # <<>>
        /\ calls[a].plan # calls[b].plan
        /\ calls[a].aggregate_risk # calls[b].aggregate_risk

\* C19: two calls of create_execution_plan with the same dataset, the same
\* initial mapping and the same registry return the same rules_to_execute,
\* estimated_cost and early_termination_threshold, whenever they are made.
C19_SamePlanWheneverCalled ==
    op = "create_execution_plan" =>
        \A t \in Clock :
            \A other \in {create_execution_plan(rules, signals, df, meta0, t)} :
                /\ other.plan.rules_to_execute = ret.plan.rules_to_execute
                /\ other.plan.estimated_cost = ret.plan.estimated_cost
                /\ other.plan.early_termination_threshold = ret.plan.early_termination_threshold

\* the names asked about: the built-in ones, those register_rule is called
\* with, and one that is never registered
C20_Names ==
    RuleNames(DefaultRules) \cup {m.name : m \in RuleChoices} \cup {"never_registered"}

\* C20: after any sequence of register_rule calls the registry holds one
\* entry per distinct name, the metadata of the last register_rule call with
\* that name; register_rule(m) leaves the entry of every other name as it
\* was, and get_rule_metadata returns nothing for a name never registered.
C20_RegisterRule ==
    /\ [](/\ \A i, j \in DOMAIN rules : rules[i].name = rules[j].name => i = j
          /\ \A name \in C20_Names :
                name \notin RuleNames(rules) => get_rule_metadata(rules, name) = NoRule
          /\ get_rule_metadata(rules, "never_registered") = NoRule
          /\ op = "register_rule" =>
                get_rule_metadata(rules, ret.metadata.name) = ret.metadata)
    /\ [][/\ op' = "register_rule" =>
                /\ RuleNames(rules') = RuleNames(rules) \cup {ret'.metadata.name}
                /\ \A name \in C20_Names :
                    name # ret'.metadata.name =>
                        get_rule_metadata(rules', name) = get_rule_metadata(rules, name)
          /\ op' # "register_rule" => rules' = rules]_vars

\* a built-in rule registered again with other metadata, beside a rule that
\* was added
C20_Witness ==
    /\ op = "register_rule"
    /\ ret.metadata.name = "high_value_transactions"
    /\ get_rule_metadata(rules, "high_value_transactions") = ret.metadata
    /\ get_rule_metadata(DefaultRules, "high_value_transactions") # ret.metadata
    /\ "custom_rule" \in RuleNames(rules)
    /\ Len(rules) = Len(DefaultRules) + 1

\* C21: the list returned by get_applicable_rules is sorted by descending
\* priority and, among rules of equal priority, by cost with the cheaper
\* rule first (cheap before medium before expensive); for any registry
\* contents.
C21_SortedByPriorityThenCost ==
    (op = "get_applicable_rules" /\ ~ret.raised) =>
        LET applicable == ret.applicable_rules
            tier(n) == CASE get_rule_metadata(rules, n).cost = "cheap" -> 1
                         [] get_rule_metadata(rules, n).cost = "medium" -> 2
                         [] get_rule_metadata(rules, n).cost = "expensive" -> 3
            priority(n) == get_rule_metadata(rules, n).priority
        IN  \A i \in 1..(Len(applicable) - 1) :
                \/ priority(applicable[i]) > priority(applicable[i + 1])
                \/ /\ priority(applicable[i]) = priority(applicable[i + 1])
                   /\ tier(applicable[i]) <= tier(applicable[i + 1])

\* C22: for a plan returned by create_execution_plan and an unchanged
\* registry, get_rule_execution_stats gives total_rules = the number of
\* planned rules, a rule_breakdown with exactly one entry per planned rule
\* carrying its category, cost, priority and per-tier time,
\* estimated_total_time_ms = the sum of the breakdown's times, and the
\* plan's early_termination_threshold.
C22_RuleExecutionStats ==
    op = "get_rule_execution_stats" =>
        LET planned == ret.plan.rules_to_execute
            breakdown == ret.stats.rule_breakdown
            time(cost) == CASE cost = "cheap" -> 10
                            [] cost = "medium" -> 100
                            [] cost = "expensive" -> 1000
        IN  /\ ret.stats.total_rules = Len(planned)
            /\ Len(breakdown) = Len(planned)
            /\ \A i \in DOMAIN planned :
                    Cardinality({k \in DOMAIN breakdown :
                                    breakdown[k].rule_name = planned[i]}) = 1
            /\ \A k \in DOMAIN breakdown :
                    /\ \E i \in DOMAIN planned : planned[i] = breakdown[k].rule_name
                    /\ \E i \in DOMAIN rules :
                        /\ rules[i].name = breakdown[k].rule_name
                        /\ breakdown[k].category = rules[i].category
                        /\ breakdown[k].cost = rules[i].cost
                        /\ breakdown[k].priority = rules[i].priority
                        /\ breakdown[k].estimated_time_ms = time(rules[i].cost)
            /\ ret.stats.estimated_total_time_ms
                    = SeqSum([k \in DOMAIN breakdown |-> breakdown[k].estimated_time_ms])
            /\ ret.stats.early_termination_threshold = ret.plan.early_termination_threshold

\* statistics of a plan with rules of all three tiers, a registered one
\* among them
C22_Witness ==
    /\ op = "get_rule_execution_stats"
    /\ {ret.stats.rule_breakdown[k].cost : k \in DOMAIN ret.stats.rule_breakdown}
            = {"cheap", "medium", "expensive"}
    /\ \E k \in DOMAIN ret.stats.rule_breakdown :
            ret.stats.rule_breakdown[k].rule_name \notin RuleNames(DefaultRules)

\* C23: the temporal_pattern signal adds the 0.4 of clustering whenever at
\* least 80% of the consecutive time differences are under one minute,
\* exactly 80% (4 of 5) included.
C23_ClusteringAtEightyPercent ==
    (op = "calculate_all_signals" /\ signals = DefaultSignals) =>
        \A i \in DOMAIN ret.fast.results :
            (/\ ret.fast.results[i].name = "temporal_pattern"
             /\ RunCount(df.timestamp.times) > 1
             /\ 10 * df.timestamp.fast >= 8 * (RunCount(df.timestamp.times) - 1))
                => FGe(ret.fast.results[i].risk_score, Tenths(4))

\* C24: the minimum-size gates are inclusive at 5: amount_distribution gives
\* a signal for 5 non-null amounts and none for 4, temporal_pattern gives a
\* signal for 5 parseable non-null timestamps and none for 4; and when every
\* signal produced has zero risk, or none is produced, the aggregate risk
\* used for the plan is 0.1.
C24_GatesInclusiveAtFive ==
    (op = "create_execution_plan" /\ ~ret.raised) =>
        LET produced == {ret.fast.results[i].name : i \in DOMAIN ret.fast.results}
        IN  /\ (signals = DefaultSignals /\ Has(df, "amount") /\ df.dtypes["amount"] = "number") =>
                    /\ NonNull(df, "amount") >= 5 => "amount_distribution" \in produced
                    /\ NonNull(df, "amount") <= 4 => "amount_distribution" \notin produced
            /\ (signals = DefaultSignals /\ Has(df, "timestamp") /\ ~df.timestamp.bad) =>
                    /\ RunCount(df.timestamp.times) >= 5 => "temporal_pattern" \in produced
                    /\ RunCount(df.timestamp.times) <= 4 => "temporal_pattern" \notin produced
            /\ (\A i \in DOMAIN ret.fast.results : ret.fast.results[i].risk_score = Zero) =>
                    /\ ret.aggregate_risk = Tenths(1)
                    /\ Get(file_metadata, "risk_score", Zero) = Tenths(1)

\* five rows with exactly five amounts and five timestamps: both signals
\* are produced, all with zero risk, and the plan is made at 0.1
C24_Witness ==
    /\ op = "create_execution_plan"
    /\ signals = DefaultSignals
    /\ Has(df, "amount") /\ NonNull(df, "amount") = 5
    /\ Has(df, "timestamp") /\ RunCount(df.timestamp.times) = 5
    /\ {"amount_distribution", "temporal_pattern"}
            \subseteq {ret.fast.results[i].name : i \in DOMAIN ret.fast.results}
    /\ \A i \in DOMAIN ret.fast.results : ret.fast.results[i].risk_score = Zero
    /\ ret.aggregate_risk = Tenths(1)

\* C25 (scenario A): for a dataset of 20 rows with the columns amount,
\* merchant and timestamp, every row with the same amount, merchant and
\* hour, duplicate_transactions is applicable and is in rules_to_execute,
\* and the amount_distribution signal has risk_score >= 0.4.
C25_ScenarioA ==
    (/\ op = "create_execution_plan"
     /\ rules = DefaultRules
     /\ signals = DefaultSignals
     /\ df.rows = 20
     /\ Columns(df) = {"amount", "merchant", "timestamp"}
     /\ NonNull(df, "amount") = 20
     /\ NUnique(df.amount.vals) = 1) =>
        /\ ~ret.raised
        /\ \E i \in DOMAIN ret.applicable_rules : ret.applicable_rules[i] = "duplicate_transactions"
        /\ \E i \in DOMAIN ret.plan.rules_to_execute :
                ret.plan.rules_to_execute[i] = "duplicate_transactions"
        /\ \E i \in DOMAIN ret.fast.results :
                /\ ret.fast.results[i].name = "amount_distribution"
                /\ FGe(ret.fast.results[i].risk_score, Tenths(4))

\* the scenario's dataset, planned with a mapping that names no file type
C25_Witness ==
    /\ op = "create_execution_plan"
    /\ rules = DefaultRules
    /\ signals = DefaultSignals
    /\ df.rows = 20
    /\ Columns(df) = {"amount", "merchant", "timestamp"}
    /\ NUnique(df.amount.vals) = 1
    /\ meta0 = NoMetadata
    /\ ret.plan.rules_to_execute[2] = "duplicate_transactions"

\* C26 (scenario C): for a dataset whose only columns are quantity and
\* item_name, detect_file_type returns inventory; and with the metadata
\* file_type = 'inventory' the rule off_hours_transactions is not applicable
\* (its predicate not_inventory_only is false) and is not in the plan.
C26_ScenarioC ==
    /\ (op = "detect_file_type" /\ ColumnNames(df) = {"quantity", "item_name"}) =>
            ret.schema.file_type = "inventory"
    /\ (/\ op = "create_execution_plan"
        /\ rules = DefaultRules
        /\ Columns(df) = {"quantity", "item_name"}
        /\ Get(meta0, "file_type", "") = "inventory") =>
            /\ Condition("not_inventory_only", df, file_metadata) = "False"
            /\ \A i \in DOMAIN ret.applicable_rules :
                    ret.applicable_rules[i] # "off_hours_transactions"
            /\ \A i \in DOMAIN ret.plan.rules_to_execute :
                    ret.plan.rules_to_execute[i] # "off_hours_transactions"

\* the scenario's dataset planned as an inventory file: the inventory rule
\* is scheduled
C26_Witness ==
    /\ op = "create_execution_plan"
    /\ Columns(df) = {"quantity", "item_name"}
    /\ Get(meta0, "file_type", "") = "inventory"
    /\ ret.plan.rules_to_execute = <<"inventory_movement_anomalies">>

\* the mapping without one of its keys
C27_Without(meta, key) == [k \in DOMAIN meta \ {key} |-> meta[k]]

\* C27: create_execution_plan writes the floored aggregate risk to
\* metadata['risk_score'] before the registry evaluates a predicate, so
\* not_high_risk_already (risk_score < 0.8) sees the risk computed by this
\* call and never one left in the mapping: a stale risk_score >= 0.8 does
\* not exclude anomaly_detection, and a computed risk >= 0.8 always excludes
\* it from rules_to_execute.
C27_PredicatesSeeComputedRisk ==
    (op = "create_execution_plan" /\ ~ret.raised) =>
        /\ Get(file_metadata, "risk_score", Zero) = ret.aggregate_risk
        /\ Condition("not_high_risk_already", df, file_metadata)
                = Bool(FLt(ret.aggregate_risk, Tenths(8)))
        /\ ret.applicable_rules = get_applicable_rules(rules, df, file_metadata).value
        /\ \A fresh \in {create_execution_plan(rules, signals, df,
                                               C27_Without(meta0, "risk_score"), now)} :
                /\ fresh.plan = ret.plan
                /\ fresh.applicable_rules = ret.applicable_rules
        /\ (rules = DefaultRules /\ FGe(ret.aggregate_risk, Tenths(8))) =>
                \A i \in DOMAIN ret.plan.rules_to_execute :
                    ret.plan.rules_to_execute[i] # "anomaly_detection"

\* a mapping that came with a risk_score of 0.95, and anomaly_detection is
\* planned all the same
C27_Witness ==
    /\ op = "create_execution_plan"
    /\ rules = DefaultRules
    /\ FGe(Get(meta0, "risk_score", Zero), Tenths(8))
    /\ FLt(ret.aggregate_risk, Tenths(8))
    /\ \E i \in DOMAIN ret.plan.rules_to_execute :
            ret.plan.rules_to_execute[i] = "anomaly_detection"

C29_OtherKeysKept ==
    op = "create_execution_plan" =>
        /\ DOMAIN file_metadata = DOMAIN meta0 \cup {"risk_score"}
        /\ \A k \in DOMAIN meta0 \ {"risk_score"} : file_metadata[k] = meta0[k]
        /\ ~ret.raised =>
                /\ ret.plan.execution_order = ret.plan.rules_to_execute
                /\ ret.plan.risk_threshold = Tenths(3)

C29_PlanChangesOnlyRiskScore ==
    /\ []C29_OtherKeysKept
    /\ [][op' = "create_execution_plan" =>
            /\ rules' = rules
            /\ signals' = signals]_vars

\* a plan made with a registry a rule was added to, from a mapping that
\* held a file_type and a stale risk_score; the call replaced the risk
\* score and kept the file type
C29_Witness ==
    /\ op = "create_execution_plan" /\ ~ret.raised
    /\ DOMAIN rules # DOMAIN DefaultRules
    /\ "file_type" \in DOMAIN meta0 /\ "risk_score" \in DOMAIN meta0
    /\ file_metadata.file_type = meta0.file_type
    /\ file_metadata.risk_score # meta0.risk_score
    /\ Len(ret.plan.execution_order) > 0

\* C30: every rule name the built-in registry can place in rules_to_execute
\* is dispatched by _apply_rule to that rule's detection routine, not to
\* the branch that returns no suspicious records and no alerts.
C30_EveryPlannedRuleDispatched ==
    (/\ op = "_apply_rule"
     /\ rules = DefaultRules
     /\ ret.rule_name \in RuleNames(DefaultRules)) => ret.routine # NoDetection

====
